---------------------------- MODULE Spec2Model ----------------------------
(***************************************************************************)
(* A model of the glyph rendering core of fast-web-text: the texture       *)
(* atlas (shelf packer, glyph cache, metadata export), the glyph           *)
(* rasterizer's size/failure behaviour, the instanced WebGPU renderer      *)
(* (initialize, prewarm, upload, render), and around it the Document, the  *)
(* SelectionManager, the Editor with its render loop and the InputHandler. *)
(*                                                                         *)
(* Strings of the program are TLA+ strings; a line of text is a sequence   *)
(* of one-character strings, so that line[i] is the i-th character.        *)
(* Indices that the program counts from 0 (page index, glyph index,        *)
(* column) are kept 0-based in the records; the TLA+ sequences that hold   *)
(* them are 1-based.                                                       *)
(***************************************************************************)
EXTENDS Integers, Sequences, FiniteSets, TLC

VARIABLES
    textureAtlas,      \* the TextureAtlas: pages, glyphCache, nextGlyphIndex, textures
    lastCall,          \* observation of the most recent getGlyph call
    firstReturn,       \* history: (char, style) -> glyph its first call returned
    font,              \* the measurement backend: the glyph box of the font
    prewarmPos,        \* prewarmAtlas: characters of the prewarm string cached
    renderer,          \* the WebGPURenderer and the GPU resources it owns
    frame,             \* observation of the most recent render call
    previousFrame,     \* observation of the render call before it
    monospaceOpt,      \* the MonospaceOptimizer: isMonospace, charWidth
    optCall,           \* observation of the most recent MonospaceOptimizer call
    widthCache,        \* a LineWidthCache (the Editor's own): cache, maxWidth
    widthLog,          \* history: the LineWidthCache operations called so far
    gpuEnv,            \* the browser: navigator.gpu, adapter, context, shader
    editor,            \* the Editor: constructed, failed, running or stopped
    selectionManager,  \* the SelectionManager: anchor and head
    selectionLog,      \* history: the calls made on the SelectionManager
    editorFields,      \* the Editor: document, cursor, scrollTop, needsRender
    inputHandler,      \* the InputHandler: isMouseDown, isDragging
    gesture,           \* history: progress of a plain click, then a Shift+Click
    editorFrame,       \* observation of the frame callback that is running
    dirty,             \* history: what a frame shows changed since the last one
    layoutWidthCache,  \* the renderer's LineWidthCache, read when lines are laid out
    pointer,           \* the mouse: "idle", "pressed", "released" (click is due)
    viewportCall, \* observation of the most recent ViewportManager call
    documentCall, \* observation of the most recent Document.insertText or deleteText call
    highlighter  \* the SyntaxHighlighter: tokenCache, and the tokens the running frame got

atlasVars == <<textureAtlas, lastCall, firstReturn>>

(***************************************************************************)
(* Bounds of the model.                                                    *)
(***************************************************************************)
\* The side of an atlas page in pixels (the program uses 2048).
PageSize == 4

\* How many characters of the prewarm string the prewarm loop walks through.
MaxPrewarm == 9

\* The capacity of the instance array in Cells (the program uses 10000).
MAX_VISIBLE_GLYPHS == 3

\* Frames handed to render: at most MaxLines lines of at most MaxLineLen
\* characters, the first of them line 0 .. MaxFirstLine of the document.
MaxLines == 2

MaxLineLen == 2

MaxFirstLine == 1

\* The height of the canvas in pixels.
CanvasHeight == 18

(***************************************************************************)
(* Small helpers.                                                          *)
(***************************************************************************)
Max(a, b) == IF a > b THEN a ELSE b

\* JavaScript's conversion of a boolean inside a template literal.
BoolStr(b) == IF b THEN "true" ELSE "false"

(***************************************************************************)
(* GlyphStyle, CachedGlyph.                                                *)
(***************************************************************************)
GlyphStyle(ff, fs, col, b, i) ==
    [fontFamily |-> ff, fontSize |-> fs, color |-> col, bold |-> b, italic |-> i]

CachedGlyph(p, idx, gx, gy, w, h) ==
    [page |-> p, index |-> idx, x |-> gx, y |-> gy, width |-> w, height |-> h,
     offsetX |-> 0, offsetY |-> 0]

\* Stands for "no glyph was returned" (the call threw).
NoGlyph == CachedGlyph(-1, -1, 0, 0, 0, 0)

(***************************************************************************)
(* GlyphRasterizer.rasterize: the bitmap is as wide and high as the        *)
(* measured (rounded up) text metrics; reading a bitmap of width or height *)
(* 0 from the canvas raises an error.                                      *)
(***************************************************************************)
RasterError == [width |-> 0, height |-> 0, error |-> TRUE]

Rasterize(metrics) ==
    IF metrics.width = 0 \/ metrics.height = 0
    THEN RasterError
    ELSE [width |-> metrics.width, height |-> metrics.height, error |-> FALSE]

(***************************************************************************)
(* TextureAtlasPage.                                                       *)
(***************************************************************************)
NewPage == [x |-> 0, y |-> 0, rowHeight |-> 0, glyphs |-> <<>>]

\* A canFit that wraps to x = 0 without moving y to the next row.
CanFitNoRowAdvance(page, width, height, pageSize) ==
    LET p1 == IF page.x + width > pageSize
              THEN [page EXCEPT !.x = 0, !.rowHeight = 0]
              ELSE page
    IN [page |-> p1, fits |-> p1.y + height <= pageSize]

\* A canFit that wraps already when the bitmap ends exactly at the page edge.
CanFitOffByOne(page, width, height, pageSize) ==
    LET p1 == IF page.x + width >= pageSize
              THEN [page EXCEPT !.x = 0, !.y = page.y + page.rowHeight, !.rowHeight = 0]
              ELSE page
    IN [page |-> p1, fits |-> p1.y + height <= pageSize]

\* canFit moves the shelf cursor to the next row when the width does not
\* fit in the current row, whatever it then answers.
CanFit(page, width, height, pageSize) ==
    LET p1 == IF page.x + width > pageSize
              THEN [page EXCEPT !.x = 0, !.y = page.y + page.rowHeight, !.rowHeight = 0]
              ELSE page
    IN [page |-> p1, fits |-> p1.y + height <= pageSize]

Allocate(page, width, height) ==
    [page |-> [page EXCEPT !.x = page.x + width,
                           !.rowHeight = Max(page.rowHeight, height)],
     x |-> page.x, y |-> page.y]

(***************************************************************************)
(* TextureAtlas.                                                           *)
(***************************************************************************)
\* The atlas after its constructor: one empty page, an empty cache.
\* textures[p] is the content of the GPU texture of page p: the glyph
\* bitmaps written into it.
NewAtlas(pageSize) ==
    [pageSize |-> pageSize,
     pages |-> <<NewPage>>,
     textures |-> <<{}>>,
     glyphCache |-> <<>>,
     nextGlyphIndex |-> 0]

CreateNewPage(a) ==
    [a EXCEPT !.pages = Append(a.pages, NewPage), !.textures = Append(a.textures, {})]

MakeKey(char, style) ==
    char \o "_" \o style.fontFamily \o "_" \o ToString(style.fontSize) \o "_"
         \o style.color \o "_" \o BoolStr(style.bold) \o "_" \o BoolStr(style.italic)

\* A cache that never reports a hit.
CacheHasNever(a, key) == FALSE

\* glyphCache.has(key)

CacheHas(a, key) == key \in DOMAIN a.glyphCache

\* allocateGlyph, first part: the last page is asked whether the bitmap
\* fits (which may move its cursor to the next row); if not, a new page is
\* created and becomes the last page.
PageForGlyph(a, fit) ==
    IF fit.fits
    THEN [a EXCEPT !.pages[Len(a.pages)] = fit.page]
    ELSE CreateNewPage([a EXCEPT !.pages[Len(a.pages)] = fit.page])

\* allocateGlyph, last part: the bitmap is written into the page's texture
\* at the allocated place and the glyph is recorded in the cache and in
\* the page.
StoreGlyph(a, page, cached, key) ==
    [atlas |-> [a EXCEPT !.pages[Len(a.pages)] =
                             [page EXCEPT !.glyphs = Append(page.glyphs, cached)],
                         !.textures[Len(a.pages)] = @ \cup {cached},
                         !.nextGlyphIndex = @ + 1,
                         !.glyphCache = (key :> cached) @@ @],
     glyph |-> cached]

\* allocateGlyph, middle part: the place on the last page.
PlaceGlyph(a, al, imageData, key) ==
    StoreGlyph(a, al.page,
               CachedGlyph(Len(a.pages) - 1, a.nextGlyphIndex, al.x, al.y,
                           imageData.width, imageData.height),
               key)

AllocateOnLastPage(a, imageData, key) ==
    PlaceGlyph(a, Allocate(a.pages[Len(a.pages)], imageData.width, imageData.height),
               imageData, key)

AllocateGlyph(a, imageData, key) ==
    AllocateOnLastPage(
        PageForGlyph(a, CanFit(a.pages[Len(a.pages)], imageData.width, imageData.height,
                               a.pageSize)),
        imageData, key)

\* What getGlyph answers after allocateGlyph.
Allocated(r) == [atlas |-> r.atlas, glyph |-> r.glyph, threw |-> FALSE, rasterized |-> TRUE]

\* getGlyph with the cache key made and the rasterizer's answer at hand
\* (the rasterizer is asked only when the key is not cached).
GetGlyphKeyed(a, key, imageData) ==
    IF CacheHas(a, key)
    THEN [atlas |-> a, glyph |-> a.glyphCache[key], threw |-> FALSE, rasterized |-> FALSE]
    ELSE IF imageData.error
         THEN [atlas |-> a, glyph |-> NoGlyph, threw |-> TRUE, rasterized |-> TRUE]
         ELSE Allocated(AllocateGlyph(a, imageData, key))

\* getGlyph(char, style), the measurement backend answering `metrics`.
GetGlyph(a, char, style, metrics) ==
    GetGlyphKeyed(a, MakeKey(char, style), Rasterize(metrics))

GetPageCount(a) == Len(a.pages)

\* All glyphs of the cache (Map.values()).
CacheValues(a) == {a.glyphCache[k] : k \in DOMAIN a.glyphCache}

\* floatsPerGlyph in getGlyphInfoArray: position(2) + size(2) + origin(2).
FloatsPerGlyph == 6

\* A field layout with width and height exchanged.
GlyphFieldSizeSwapped(g, j) ==
    CASE j = 0 -> g.x
      [] j = 1 -> g.y
      [] j = 2 -> g.height
      [] j = 3 -> g.width
      [] j = 4 -> g.offsetX
      [] OTHER -> g.offsetY

\* The value getGlyphInfoArray stores at data[offset + j] for glyph g.
GlyphField(g, j) ==
    CASE j = 0 -> g.x
      [] j = 1 -> g.y
      [] j = 2 -> g.width
      [] j = 3 -> g.height
      [] j = 4 -> g.offsetX
      [] OTHER -> g.offsetY

\* getGlyphInfoArray(): a zero-filled array of nextGlyphIndex * 6 numbers
\* into which every glyph of the cache writes its six fields at
\* index * 6.  Element p of the array (0-based) is element p + 1 here.
GetGlyphInfoArray(a) ==
    LET maxGlyphs == a.nextGlyphIndex
    IN [p \in 1..(maxGlyphs * FloatsPerGlyph) |->
          LET pos == p - 1
              writers == {g \in CacheValues(a) :
                             /\ g.index * FloatsPerGlyph <= pos
                             /\ pos < g.index * FloatsPerGlyph + FloatsPerGlyph}
          IN IF writers = {} THEN 0
             ELSE LET g == CHOOSE w \in writers : TRUE
                  IN GlyphField(g, pos - g.index * FloatsPerGlyph)]

(***************************************************************************)
(* WebGPURenderer (the instanced version): initialize, prewarmAtlas,       *)
(* uploadAtlasData, render.                                                *)
(***************************************************************************)
LineHeight == 18

CharWidthDefault == 10

FLOATS_PER_CELL == 6

RendererStyle == GlyphStyle("monospace", 14, "#FFFFFF", FALSE, FALSE)

\* The beginning of the string of characters prewarmAtlas caches.
PrewarmString ==
    <<" ", "A", "B", "C", "D", "E", "F", "G", "H", "I", "J", "K", "L", "M",
      "N", "O", "P", "Q", "R", "S", "T", "U", "V", "W", "X", "Y", "Z">>

PrewarmChars == SubSeq(PrewarmString, 1, MaxPrewarm)

\* A character the font measures with width 0 (a zero-width space).
ZeroWidthChar == "ZWSP"

\* The text metrics the rasterizer measures for a character in a session
\* whose font has the glyph box f.
CharMetrics(f, char) ==
    IF char = ZeroWidthChar THEN [width |-> 0, height |-> f.height] ELSE f

\* The renderer after its constructor; the GPU resources do not exist yet.
\* pipelineValid: the render pipeline exists and is a valid one.
\* isMonospace: what the renderer's MonospaceOptimizer has detected.
\* glyphInfoStorageBuffer holds the numbers written to the buffer so far,
\* atlasTexture the layered texture: its number of layers and, per layer,
\* the glyph bitmaps copied into it.
NewRenderer ==
    [state |-> "new",
     lineHeight |-> LineHeight,
     charWidth |-> CharWidthDefault,
     glyphInfoStorageBuffer |-> <<>>,
     atlasTexture |-> [layers |-> 0, content |-> <<>>],
     pipelineValid |-> FALSE,
     isMonospace |-> FALSE]

\* queue.writeBuffer(buffer, 0, data): data replaces the beginning of the buffer.
WriteBuffer(old, data) == data \o SubSeq(old, Len(data) + 1, Len(old))

\* One iteration of the loop of prewarmAtlas, for the i-th character of
\* its string; a failing rasterization ends the loop with the error.
Prewarmed(r) == [atlas |-> r.atlas, threw |-> r.threw]

PrewarmChar(st, i, f) ==
    IF st.threw THEN st
    ELSE Prewarmed(GetGlyph(st.atlas, PrewarmChars[i], RendererStyle,
                            CharMetrics(f, PrewarmChars[i])))

\* prewarmAtlas: the loop over all characters of the string.
PrewarmAtlas(a, f) ==
    LET after[i \in 0..Len(PrewarmChars)] ==
            IF i = 0 THEN [atlas |-> a, threw |-> FALSE]
            ELSE PrewarmChar(after[i - 1], i, f)
    IN after[Len(PrewarmChars)]

CreateTextureArray(a) ==
    LET n == Max(1, Len(a.pages))
    IN [layers |-> n, content |-> [i \in 1..n |-> {}]]

\* copyPagesToTextureArray: one copy per page into the layer of its index,
\* all in one command buffer; a copy into a layer the texture does not
\* have invalidates the command buffer and nothing is copied.
CopyPagesToTextureArray(a, tex) ==
    IF Len(a.pages) > tex.layers THEN tex
    ELSE [tex EXCEPT !.content = [i \in 1..tex.layers |->
                                     IF i <= Len(a.pages) THEN a.textures[i]
                                     ELSE tex.content[i]]]

UploadAtlasData(r, a) ==
    [r EXCEPT !.glyphInfoStorageBuffer = WriteBuffer(@, GetGlyphInfoArray(a)),
              !.atlasTexture = CopyPagesToTextureArray(a, @)]

Cell(px, py, gi, layer) ==
    [positionX |-> px, positionY |-> py, unused1 |-> 0, unused2 |-> 0,
     glyphIndex |-> gi, textureLayer |-> layer]

\* The off-screen test of render for a line at vertical position y.
IsOffScreen(y, lineHeight, canvasHeight) == y + lineHeight < 0 \/ y > canvasHeight

\* The body of the inner loop of render after getGlyph answered g: the
\* Cell of column i is written at cellIndex.
WriteCell(st, r, g, i, y) ==
    IF g.threw
    THEN [st EXCEPT !.atlas = g.atlas, !.threw = TRUE]
    ELSE [st EXCEPT !.atlas = g.atlas,
                    !.cellData = Append(@, Cell(i * r.charWidth, y,
                                                g.glyph.index, g.glyph.page)),
                    !.cellIndex = @ + FLOATS_PER_CELL,
                    !.glyphCount = @ + 1]

\* One iteration of the inner loop of render, for column i of a line at
\* vertical position y.  st: the atlas, the Cells written so far,
\* cellIndex, glyphCount and whether getGlyph threw.  The loop ends when
\* glyphCount reaches the capacity: the later columns do nothing.
RenderChar(st, r, f, char, i, y) ==
    IF st.threw \/ ~(st.glyphCount < MAX_VISIBLE_GLYPHS)
    THEN st
    ELSE IF char = " "
         THEN st
         ELSE WriteCell(st, r, GetGlyph(st.atlas, char, RendererStyle, CharMetrics(f, char)),
                        i, y)

\* The inner loop of render over the columns 0 .. length-1 of one line.
RenderLineChars(st, r, f, lineData, y) ==
    LET n == Len(lineData.line)
        after[i \in 0..n] ==
            IF i = 0 THEN st ELSE RenderChar(after[i - 1], r, f, lineData.line[i], i - 1, y)
    IN after[n]

\* One iteration of the outer loop of render.
RenderLineAt(st, r, f, lineData, y) ==
    IF st.threw \/ IsOffScreen(y, r.lineHeight, CanvasHeight)
    THEN st
    ELSE RenderLineChars(st, r, f, lineData, y)

RenderLine(st, r, f, lineData, scrollTop) ==
    RenderLineAt(st, r, f, lineData, (lineData.lineNumber * r.lineHeight) - scrollTop)

\* The outer loop of render over visibleLines.
RenderLines(st, r, f, visibleLines, scrollTop) ==
    LET after[k \in 0..Len(visibleLines)] ==
            IF k = 0 THEN st ELSE RenderLine(after[k - 1], r, f, visibleLines[k], scrollTop)
    IN after[Len(visibleLines)]

NoFrame ==
    [called |-> FALSE, visibleLines |-> <<>>, scrollTop |-> 0, threw |-> FALSE,
     cellData |-> <<>>, cellIndex |-> 0, glyphCount |-> 0,
     cellWrite |-> <<>>, draws |-> <<>>, submits |-> 0, calls |-> <<>>,
     created |-> <<>>]

\* What render creates: the instance array cellData, allocated anew at
\* the beginning of every call, and the texture of every atlas page that
\* getGlyph opens for a glyph it caches.
CreatedInRender(newPages) ==
    <<"Float32Array cellData">> \o [i \in 1..newPages |-> "texture"]

\* The GPU calls of render before the cell upload: the layout uniforms,
\* then one texture write per glyph that was cached.
CallsBeforeUpload(written) ==
    <<"writeBuffer layoutInfo">> \o [i \in 1..written |-> "writeTexture"]

\* The end of render with the cell upload queued after the submission.
FinishFrameSubmitFirst(st, seen) ==
    IF st.threw \/ st.glyphCount = 0 THEN seen
    ELSE [seen EXCEPT
            !.cellWrite = SubSeq(st.cellData, 1, st.glyphCount),
            !.draws = <<[vertexCount |-> 6, instanceCount |-> st.glyphCount]>>,
            !.submits = 1,
            !.calls = @ \o <<"draw", "submit", "writeBuffer cells">>]

\* The end of render once the loops have ended in st: nothing more when
\* getGlyph threw or no glyph was counted, else the upload of the filled
\* part of cellData, one draw and one submit.  cellWrite is the data of
\* the write to the cell storage buffer, draws the draw calls, calls the
\* GPU calls in the order they were made.
FinishFrame(st, seen) ==
    IF st.threw \/ st.glyphCount = 0 THEN seen
    ELSE [seen EXCEPT
            !.cellWrite = SubSeq(st.cellData, 1, st.glyphCount),
            !.draws = <<[vertexCount |-> 6, instanceCount |-> st.glyphCount]>>,
            !.submits = 1,
            !.calls = @ \o <<"writeBuffer cells", "draw", "submit">>]

LoopsSeen(st, a, visibleLines, scrollTop) ==
    [atlas |-> st.atlas,
     frame |-> FinishFrame(st,
                 [NoFrame EXCEPT !.called = TRUE, !.visibleLines = visibleLines,
                                 !.scrollTop = scrollTop, !.threw = st.threw,
                                 !.cellData = st.cellData, !.cellIndex = st.cellIndex,
                                 !.glyphCount = st.glyphCount,
                                 !.calls = CallsBeforeUpload(st.atlas.nextGlyphIndex
                                                             - a.nextGlyphIndex),
                                 !.created = CreatedInRender(Len(st.atlas.pages)
                                                             - Len(a.pages))])]

\* render(visibleLines, scrollTop) on the atlas a: the atlas afterwards and
\* what the call did.
RenderFrame(r, a, f, visibleLines, scrollTop) ==
    LoopsSeen(RenderLines([atlas |-> a, cellData |-> <<>>, cellIndex |-> 0,
                           glyphCount |-> 0, threw |-> FALSE],
                          r, f, visibleLines, scrollTop),
              a, visibleLines, scrollTop)

(***************************************************************************)
(* MonospaceOptimizer.  Widths are in hundredths of a pixel, so that the   *)
(* 0.1 px of the detector is 10.  A text is a sequence of characters; the  *)
(* call getCharPosition(column) without a text has the text NoText.        *)
(***************************************************************************)
\* The probe characters of detectMonospace.
TestChars == <<"i", "M", "W", "0", "1", "2", "3">>

\* The tolerance of detectMonospace (0.1 px).
Epsilon == 10

Abs(x) == IF x < 0 THEN 0 - x ELSE x

NewMonospaceOptimizer == [isMonospace |-> FALSE, charWidth |-> 0]

\* widths.every(w => Math.abs(w - widths[0]) < 0.1)
AllEqual(widths) == \A k \in 1..Len(widths) : Abs(widths[k] - widths[1]) < Epsilon

\* detectMonospace: the optimizer afterwards, widths being the measured
\* widths of the probe characters; the call returns the isMonospace of it.
DetectMonospace(opt, widths) ==
    IF AllEqual(widths)
    THEN [isMonospace |-> TRUE, charWidth |-> widths[1]]
    ELSE opt

NoText == <<"undefined">>

\* No MonospaceOptimizer call has been observed.
NoOptCall == [op |-> "none", widths |-> <<>>, returned |-> FALSE,
              column |-> 0, text |-> NoText, position |-> 0]

\* The advance widths of the characters of the proportional font texts
\* are measured in.
Advance(char) == IF char = "i" THEN 300 ELSE 900

\* measureWidth(text): the advances add up.
MeasureWidth(text) ==
    LET sum[k \in 0..Len(text)] == IF k = 0 THEN 0 ELSE sum[k - 1] + Advance(text[k])
    IN sum[Len(text)]

\* text.substring(0, column) for column >= 0.
Substring0(text, column) == SubSeq(text, 1, IF column < Len(text) THEN column ELSE Len(text))

\* A position that is always measured.
GetCharPositionMeasured(opt, column, text) ==
    IF text = NoText \/ text = <<>> THEN 0 ELSE MeasureWidth(Substring0(text, column))

GetCharPosition(opt, column, text) ==
    IF opt.isMonospace
    THEN column * opt.charWidth
    ELSE IF text = NoText \/ text = <<>>
         THEN 0
         ELSE MeasureWidth(Substring0(text, column))

(***************************************************************************)
(* LineWidthCache.  The Map is a function from the cached line numbers to  *)
(* their widths.                                                           *)
(***************************************************************************)
\* What getLineWidth returns: undefined, or a width.
Undefined == [defined |-> FALSE, width |-> 0]

Defined(width) == [defined |-> TRUE, width |-> width]

NewLineWidthCache == [cache |-> <<>>, maxWidth |-> 0]

\* Math.max(...values) of a non-empty set of numbers.
MaxOf(values) == CHOOSE v \in values : \A w \in values : w <= v

GetLineWidth(c, lineNumber) ==
    IF lineNumber \in DOMAIN c.cache THEN Defined(c.cache[lineNumber]) ELSE Undefined

SetLineWidth(c, lineNumber, width) ==
    [cache |-> [k \in DOMAIN c.cache \cup {lineNumber} |->
                    IF k = lineNumber THEN width ELSE c.cache[k]],
     maxWidth |-> Max(c.maxWidth, width)]

\* An invalidation that drops every line.
InvalidateLineDropsAll(c, lineNumber) == [cache |-> <<>>, maxWidth |-> 0]

InvalidateLine(c, lineNumber) ==
    LET rest == [k \in DOMAIN c.cache \ {lineNumber} |-> c.cache[k]]
    IN [cache |-> rest,
        maxWidth |-> IF DOMAIN rest # {} THEN MaxOf({rest[k] : k \in DOMAIN rest}) ELSE 0]

GetMaxWidth(c) == c.maxWidth

ClearWidths(c) == [cache |-> <<>>, maxWidth |-> 0]

(***************************************************************************)
(* SyntaxHighlighter.  tokenCache maps line numbers to tokens; obtained is *)
(* what getCachedTokens returned to the frame callback that is running,    *)
(* line by line.                                                           *)
(***************************************************************************)
NewSyntaxHighlighter == [tokenCache |-> <<>>, obtained |-> <<>>]

\* tokenize(line, language): the tokens of a line of letters and blanks,
\* one plain token over the whole line.
Tokenize(line) ==
    <<[type |-> "plain", content |-> line, startColumn |-> 0, endColumn |-> Len(line)]>>

\* What getCachedTokens(lineNumber, line, language) returns.
GetCachedTokens(tokenCache, lineNumber, line) ==
    IF lineNumber \in DOMAIN tokenCache THEN tokenCache[lineNumber] ELSE Tokenize(line)

\* The cache after getCachedTokens was called for the lines
\* startLine .. endLine of the document lines.
CachedAfter(tokenCache, lines, startLine, endLine) ==
    [i \in DOMAIN tokenCache \cup startLine..endLine |->
        GetCachedTokens(tokenCache, i,
                        IF i < 0 \/ i >= Len(lines) THEN <<>> ELSE lines[i + 1])]

InvalidateCache(tokenCache, fromLine, toLine) ==
    [i \in DOMAIN tokenCache \ fromLine..toLine |-> tokenCache[i]]

(***************************************************************************)
(* SelectionManager.                                                       *)
(***************************************************************************)
\* The null of an anchor, a head or a returned selection.
Null == [null |-> TRUE]

NewSelectionManager == [anchor |-> Null, head |-> Null]

StartSelection(sm, position) == [anchor |-> position, head |-> position]

UpdateSelection(sm, position) ==
    IF sm.anchor # Null THEN [sm EXCEPT !.head = position] ELSE sm

ClearSelection(sm) == [anchor |-> Null, head |-> Null]

ComparePositions(a, b) ==
    IF a.line # b.line THEN a.line - b.line ELSE a.column - b.column

\* getSelection without the ordering of the two ends.
GetSelectionUnordered(sm) ==
    IF sm.anchor = Null \/ sm.head = Null
    THEN Null
    ELSE [start |-> sm.anchor, end |-> sm.head]

GetSelection(sm) ==
    IF sm.anchor = Null \/ sm.head = Null
    THEN Null
    ELSE [start |-> IF ComparePositions(sm.anchor, sm.head) <= 0 THEN sm.anchor ELSE sm.head,
          end |-> IF ComparePositions(sm.anchor, sm.head) <= 0 THEN sm.head ELSE sm.anchor]

(***************************************************************************)
(* ColorMapper.                                                            *)
(***************************************************************************)
ColorMap ==
    ("keyword" :> "#569CD6") @@ ("string" :> "#CE9178") @@ ("comment" :> "#6A9955")
    @@ ("function" :> "#DCDCAA") @@ ("number" :> "#B5CEA8") @@ ("operator" :> "#D4D4D4")
    @@ ("punctuation" :> "#D4D4D4") @@ ("boolean" :> "#569CD6") @@ ("constant" :> "#4FC1FF")
    @@ ("class-name" :> "#4EC9B0") @@ ("tag" :> "#569CD6") @@ ("attr-name" :> "#9CDCFE")
    @@ ("attr-value" :> "#CE9178") @@ ("plain" :> "#D4D4D4")

GetColor(tokenType) ==
    IF tokenType \in DOMAIN ColorMap THEN ColorMap[tokenType] ELSE "#D4D4D4"

(***************************************************************************)
(* The environment of WebGPURenderer.initialize and the Editor around it.  *)
(***************************************************************************)
\* shader: "ok"; "fetchFails" (the fetch of the shader file rejects);
\* "invalid" (the fetched text is no valid shader: createShaderModule and
\* createRenderPipeline then return invalid objects and raise no exception).
GoodEnv == [gpu |-> TRUE, adapter |-> TRUE, context |-> TRUE, shader |-> "ok"]

\* Does initialize() throw before the atlas is created?
NoDevice(env) == ~env.gpu \/ ~env.adapter \/ ~env.context

\* Does createRenderPipeline() throw?
PipelineThrows(env) == env.shader = "fetchFails"

\* The Editor after its constructor.
NewEditor == [state |-> "constructed"]

\* Editor.initialize after renderer.initialize ended in the state given:
\* a rejection is passed on, else the render loop is started.
EditorAfter(rendererState) ==
    [state |-> IF rendererState = "failed" THEN "failed" ELSE "running"]

(***************************************************************************)
(* Document.  A text is a sequence of characters, the newline being the    *)
(* character "\n"; the lines of a document are sequences of characters.    *)
(***************************************************************************)
Min(a, b) == IF a < b THEN a ELSE b

\* text.split('\n')
Split(text) ==
    LET parts[i \in 0..Len(text)] ==
            IF i = 0 THEN << <<>> >>
            ELSE IF text[i] = "\n" THEN Append(parts[i - 1], <<>>)
                 ELSE [parts[i - 1] EXCEPT ![Len(parts[i - 1])] = Append(@, text[i])]
    IN parts[Len(text)]

\* s.substring(start, end): both indices are clamped to 0 .. length and
\* swapped when start > end.
Substring(s, start, end) ==
    SubSeq(s, Min(Max(0, Min(start, Len(s))), Max(0, Min(end, Len(s)))) + 1,
              Max(Max(0, Min(start, Len(s))), Max(0, Min(end, Len(s)))))

\* s.substring(start)
SubstringFrom(s, start) == Substring(s, start, Len(s))

NewDocument(content) == [lines |-> Split(content)]

GetLine(d, lineNumber) ==
    IF lineNumber < 0 \/ lineNumber >= Len(d.lines) THEN <<>> ELSE d.lines[lineNumber + 1]

GetLineCount(d) == Len(d.lines)

\* The lines of insertText when the text holds a newline: the first part
\* ends the line, the last part begins what followed the column.
InsertedLines(before, textLines, after) ==
    <<before \o textLines[1]>>
    \o SubSeq(textLines, 2, Len(textLines) - 1)
    \o <<textLines[Len(textLines)] \o after>>

\* An insertText that loses what followed the column.
DocumentInsertTextLosingRest(d, line, col, text) ==
    IF line < 0 \/ line >= Len(d.lines) THEN d
    ELSE IF Len(Split(text)) = 1
         THEN [d EXCEPT !.lines[line + 1] = Substring(@, 0, col) \o text]
         ELSE [d EXCEPT !.lines =
                            SubSeq(@, 1, line)
                            \o InsertedLines(Substring(@[line + 1], 0, col), Split(text),
                                             <<>>)
                            \o SubSeq(@, line + 2, Len(@))]

DocumentInsertText(d, line, col, text) ==
    IF line < 0 \/ line >= Len(d.lines) THEN d
    ELSE IF Len(Split(text)) = 1
         THEN [d EXCEPT !.lines[line + 1] =
                            Substring(@, 0, col) \o text \o SubstringFrom(@, col)]
         ELSE [d EXCEPT !.lines =
                            SubSeq(@, 1, line)
                            \o InsertedLines(Substring(@[line + 1], 0, col), Split(text),
                                             SubstringFrom(@[line + 1], col))
                            \o SubSeq(@, line + 2, Len(@))]

Range(startLine, startColumn, endLine, endColumn) ==
    [startLine |-> startLine, startColumn |-> startColumn,
     endLine |-> endLine, endColumn |-> endColumn]

\* deleteText reads lines[startLine] and lines[endLine] unchecked: a line
\* that does not exist makes it throw a TypeError.
DocumentDeleteThrows(d, range) ==
    \/ range.startLine < 0 \/ range.startLine >= Len(d.lines)
    \/ range.endLine < 0 \/ range.endLine >= Len(d.lines)

DocumentDeleteText(d, range) ==
    IF range.startLine = range.endLine
    THEN [d EXCEPT !.lines[range.startLine + 1] =
                       Substring(@, 0, range.startColumn) \o SubstringFrom(@, range.endColumn)]
    ELSE [d EXCEPT !.lines =
                       SubSeq(@, 1, range.startLine)
                       \o <<Substring(@[range.startLine + 1], 0, range.startColumn)
                            \o SubstringFrom(@[range.endLine + 1], range.endColumn)>>
                       \o SubSeq(@, range.endLine + 2, Len(@))]

\* No Document call has been observed.
NoDocumentCall ==
    [op |-> "none", document |-> NewDocument(<<>>), line |-> 0, col |-> 0, text |-> <<>>,
     range |-> Range(0, 0, 0, 0), threw |-> FALSE, result |-> NewDocument(<<>>)]

(***************************************************************************)
(* ViewportManager.                                                        *)
(***************************************************************************)
\* Math.ceil(a / b) for a >= 0, b > 0.
CeilDiv(a, b) == (a + b - 1) \div b

GetVisibleLineRange(scrollTop, totalLines, lineHeight, canvasHeight) ==
    [startLine |-> Max(0, scrollTop \div lineHeight),
     endLine |-> Max(0, Min((scrollTop \div lineHeight) + CeilDiv(canvasHeight, lineHeight),
                            totalLines - 1))]

GetTotalHeight(lineCount, lineHeight) == lineCount * lineHeight

\* The lines i of startLine .. endLine, in this order.
LinesFromTo(startLine, endLine) ==
    [k \in 1..Max(0, (endLine - startLine) + 1) |-> (startLine + k) - 1]

GetVisibleLinesWithBuffer(scrollTop, totalLines, buffer, lineHeight, canvasHeight) ==
    LinesFromTo(Max(0, GetVisibleLineRange(scrollTop, totalLines, lineHeight,
                                           canvasHeight).startLine - buffer),
                Min(totalLines - 1,
                    GetVisibleLineRange(scrollTop, totalLines, lineHeight,
                                        canvasHeight).endLine + buffer))

\* No ViewportManager call has been observed.
NoViewportCall ==
    [op |-> "none", scrollTop |-> 0, totalLines |-> 1, canvasHeight |-> 1, buffer |-> 0,
     range |-> [startLine |-> 0, endLine |-> 0], lines |-> <<>>]

(***************************************************************************)
(* Editor.  The operations are functions of the fields they read and       *)
(* write: es is the record of the fields document, cursorLine,             *)
(* cursorColumn, scrollTop, needsRender, selectionManager and widthCache.  *)
(***************************************************************************)
\* The fields of the Editor after its constructor, the objects it builds
\* (selectionManager, widthCache, renderer, inputHandler) apart.
NewEditorFields ==
    [document |-> NewDocument(<<>>), cursorLine |-> 0, cursorColumn |-> 0,
     scrollTop |-> 0, needsRender |-> FALSE]

\* deltaCol of the Home and End keys.
Infinity == 1000000
MinusInfinity == 0 - Infinity

HasSelection(sm) ==
    IF sm.anchor = Null \/ sm.head = Null THEN FALSE
    ELSE sm.anchor.line # sm.head.line \/ sm.anchor.column # sm.head.column

Position(line, column) == [line |-> line, column |-> column]

\* A (line, column) clamped to a position of the document.
ClampedLine(d, line) == Max(0, Min(GetLineCount(d) - 1, line))

Clamped(d, line, column) ==
    Position(ClampedLine(d, line),
             Max(0, Min(Len(GetLine(d, ClampedLine(d, line))), column)))

RequestRender(es) == [es EXCEPT !.needsRender = TRUE]

\* The end of insertText and deleteText, from the invalidation on.
AfterEdit(es) ==
    RequestRender([es EXCEPT !.widthCache = InvalidateLine(@, es.cursorLine),
                             !.tokenCache = InvalidateCache(@, es.cursorLine,
                                                            es.cursorLine),
                             !.selectionManager = ClearSelection(@)])

InsertText(es, text) ==
    AfterEdit([es EXCEPT
        !.document = DocumentInsertText(@, es.cursorLine, es.cursorColumn, text),
        !.cursorLine = IF text = <<"\n">> THEN @ + 1 ELSE @,
        !.cursorColumn = IF text = <<"\n">> THEN 0 ELSE @ + Len(text)])

\* deleteText with the cursor inside a line.
DeleteInLine(es, count, range) ==
    IF DocumentDeleteThrows(es.document, range) THEN es
    ELSE AfterEdit([es EXCEPT !.document = DocumentDeleteText(@, range),
                              !.cursorColumn = Max(0, @ - count)])

\* deleteText with the cursor at the beginning of a line that is not the
\* first: the cursor has moved to the end of the line before when the
\* document joins the two lines.
DeleteLineBreak(es, range) ==
    IF DocumentDeleteThrows(es.document, range)
    THEN [es EXCEPT !.cursorLine = range.startLine, !.cursorColumn = range.startColumn]
    ELSE AfterEdit([es EXCEPT !.document = DocumentDeleteText(@, range),
                              !.cursorLine = range.startLine,
                              !.cursorColumn = range.startColumn])

DeleteText(es, count) ==
    IF es.cursorColumn = 0 /\ es.cursorLine = 0 THEN es
    ELSE IF es.cursorColumn > 0
         THEN DeleteInLine(es, count,
                           Range(es.cursorLine, es.cursorColumn - count,
                                 es.cursorLine, es.cursorColumn))
         ELSE DeleteLineBreak(es,
                              Range(es.cursorLine - 1,
                                    Len(GetLine(es.document, es.cursorLine - 1)),
                                    es.cursorLine, 0))

\* The cursor of moveCursor and moveCursorWithSelection after the move.
MovedColumn(d, line, column, deltaCol) ==
    IF deltaCol = Infinity THEN Len(GetLine(d, line))
    ELSE IF deltaCol = MinusInfinity THEN 0
         ELSE Max(0, Min(Len(GetLine(d, line)), column + deltaCol))

Moved(es, deltaLine, deltaCol) ==
    [es EXCEPT !.cursorLine = ClampedLine(es.document, @ + deltaLine),
               !.cursorColumn = MovedColumn(es.document,
                                            ClampedLine(es.document, es.cursorLine + deltaLine),
                                            @, deltaCol)]

MoveCursor(es, deltaLine, deltaCol) ==
    RequestRender([Moved(es, deltaLine, deltaCol) EXCEPT
                      !.selectionManager = ClearSelection(@)])

\* moveCursorWithSelection from the move of the cursor on.
MoveAndUpdateSelection(es) ==
    RequestRender([es EXCEPT !.selectionManager =
                                 UpdateSelection(@, Position(es.cursorLine, es.cursorColumn))])

MoveCursorWithSelection(es, deltaLine, deltaCol) ==
    MoveAndUpdateSelection(
        Moved(IF HasSelection(es.selectionManager) THEN es
              ELSE [es EXCEPT !.selectionManager =
                                  StartSelection(@, Position(es.cursorLine, es.cursorColumn))],
              deltaLine, deltaCol))

SetCursorPositionWithoutClearingSelection(es, line, column) ==
    RequestRender([es EXCEPT !.cursorLine = Clamped(es.document, line, column).line,
                             !.cursorColumn = Clamped(es.document, line, column).column])

SetCursorPosition(es, line, column) ==
    RequestRender([es EXCEPT !.cursorLine = Clamped(es.document, line, column).line,
                             !.cursorColumn = Clamped(es.document, line, column).column,
                             !.selectionManager = ClearSelection(@)])

Scroll(es, deltaY) ==
    RequestRender([es EXCEPT !.scrollTop =
        Max(0, Min(GetTotalHeight(GetLineCount(es.document), LineHeight) - CanvasHeight,
                   @ + deltaY))])

EditorStartSelection(es, line, column) ==
    RequestRender([es EXCEPT !.selectionManager =
                                 StartSelection(@, Clamped(es.document, line, column))])

EditorUpdateSelection(es, line, column) ==
    RequestRender([es EXCEPT !.selectionManager =
                                 UpdateSelection(@, Clamped(es.document, line, column))])

(***************************************************************************)
(* InputHandler.  A handler maps the Editor fields es and the handler's    *)
(* own flags ih (isMouseDown, isDragging) to what they are afterwards.     *)
(***************************************************************************)
NewInputHandler == [isMouseDown |-> FALSE, isDragging |-> FALSE]

\* A getMousePosition that takes no account of the scroll offset.
GetMousePositionUnscrolled(x, y, scrollTop, lineHeight, charWidth) ==
    [line |-> y \div lineHeight, column |-> x \div charWidth]

\* getMousePosition for the pixel (x, y) of the canvas.
GetMousePosition(x, y, scrollTop, lineHeight, charWidth) ==
    Position((y + scrollTop) \div lineHeight, x \div charWidth)

\* handleInput: input.data is the text, the empty text when there is none.
HandleInput(es, data) == IF data # <<>> THEN InsertText(es, data) ELSE es

\* handleKeydown when Shift is held and the key is one of the six keys
\* that extend the selection.
ShiftKeys == {"ArrowUp", "ArrowDown", "ArrowLeft", "ArrowRight", "Home", "End"}

KeyDeltaLine(key) == IF key = "ArrowUp" THEN -1 ELSE IF key = "ArrowDown" THEN 1 ELSE 0

KeyDeltaCol(key) ==
    IF key = "ArrowLeft" THEN -1
    ELSE IF key = "ArrowRight" THEN 1
         ELSE IF key = "Home" THEN MinusInfinity
              ELSE IF key = "End" THEN Infinity ELSE 0

HandleKeydown(es, key, shiftKey) ==
    IF shiftKey /\ key \in ShiftKeys
    THEN MoveCursorWithSelection(es, KeyDeltaLine(key), KeyDeltaCol(key))
    ELSE IF key \in ShiftKeys
         THEN MoveCursor(es, KeyDeltaLine(key), KeyDeltaCol(key))
         ELSE IF key \in {"Backspace", "Delete"} THEN DeleteText(es, 1)
              ELSE IF key = "Enter" THEN InsertText(es, <<"\n">>)
                   ELSE IF key = "Tab" THEN InsertText(es, <<" ", " ">>)
                        ELSE es

\* A handleClick that does not ask whether a drag has just ended.
HandleClickAfterDragToo(es, ih, position, shiftKey) ==
    IF shiftKey THEN EditorUpdateSelection(es, position.line, position.column)
    ELSE SetCursorPosition(es, position.line, position.column)

\* handleClick: what it does to the Editor and to the flags.
HandleClick(es, ih, position, shiftKey) ==
    IF ih.isDragging THEN es
    ELSE IF shiftKey THEN EditorUpdateSelection(es, position.line, position.column)
         ELSE SetCursorPosition(es, position.line, position.column)

ClickFlags(ih) == [ih EXCEPT !.isDragging = FALSE]

\* A handleMouseDown that moves the cursor and starts no selection.
HandleMouseDownWithoutSelection(es, position, shiftKey) ==
    IF shiftKey THEN es
    ELSE SetCursorPositionWithoutClearingSelection(es, position.line, position.column)

HandleMouseDown(es, position, shiftKey) ==
    IF shiftKey THEN es
    ELSE SetCursorPositionWithoutClearingSelection(
             EditorStartSelection(es, position.line, position.column),
             position.line, position.column)

MouseDownFlags(ih) == [ih EXCEPT !.isMouseDown = TRUE]

HandleMouseMove(es, ih, position) ==
    IF ~ih.isMouseDown THEN es
    ELSE SetCursorPositionWithoutClearingSelection(
             EditorUpdateSelection(es, position.line, position.column),
             position.line, position.column)

MouseMoveFlags(ih) == IF ~ih.isMouseDown THEN ih ELSE [ih EXCEPT !.isDragging = TRUE]

\* handleMouseUp and handleMouseLeave.
MouseUpFlags(ih) == [ih EXCEPT !.isMouseDown = FALSE]

\* What has been recognised of a plain click followed by a Shift+Click:
\* stage is the number of events of mousedown, mouseup, click (no Shift,
\* at the pixel `first`), mousedown, mouseup, click (Shift held, at the
\* pixel `second`) that were the most recent events, in this order.
\* And of a drag: stage 7 after mousedown (no Shift, at the pixel `first`)
\* and one or more mousemove (the last one at the pixel `second`), 8 after
\* the mouseup and 9 after the click (no Shift) that follow them.
NoGesture == [stage |-> 0, first |-> <<0, 0>>, second |-> <<0, 0>>]

\* One more event of the pattern, or the pattern broken.  A mousemove
\* while no button is down changes nothing; every other event that does
\* not fit the pattern starts it anew.
NextGesture(g, type, pixel, shiftKey, buttonDown) ==
    IF type = "mousemove" /\ ~buttonDown THEN g
    ELSE IF type = "mousedown" /\ ~shiftKey
         THEN [stage |-> 1, first |-> pixel, second |-> <<0, 0>>]
         ELSE IF g.stage \in {1, 4, 7} /\ type = "mouseup"
              THEN [g EXCEPT !.stage = @ + 1]
              ELSE IF g.stage \in {1, 7} /\ type = "mousemove"
              THEN [g EXCEPT !.stage = 7, !.second = pixel]
              ELSE IF g.stage = 8 /\ type = "click" /\ ~shiftKey
              THEN [g EXCEPT !.stage = 9]
              ELSE IF g.stage = 2 /\ type = "click" /\ ~shiftKey /\ pixel = g.first
                   THEN [g EXCEPT !.stage = 3]
                   ELSE IF g.stage = 3 /\ type = "mousedown" /\ shiftKey
                        THEN [g EXCEPT !.stage = 4, !.second = pixel]
                        ELSE IF g.stage = 5 /\ type = "click" /\ shiftKey
                                /\ pixel = g.second
                             THEN [g EXCEPT !.stage = 6]
                             ELSE NoGesture

\* CursorRenderer.render: where the cursor element is put.
CursorRender(line, column, scrollTop, lineHeight, charWidth) ==
    [left |-> column * charWidth, top |-> (line * lineHeight) - scrollTop]

\* The observation of a frame callback: whether it found needsRender set,
\* how often it called each renderer, whether its work threw, and the
\* fields of the Editor before it.
NoEditorFrame ==
    [ran |-> FALSE, foundNeedsRender |-> FALSE, renderCalls |-> 0,
     selectionRenderCalls |-> 0, cursorRenderCalls |-> 0, threw |-> FALSE,
     fieldsBefore |-> NewEditorFields]

(***************************************************************************)
(* Specification SpecAtlas: a texture atlas driven by arbitrary getGlyph   *)
(* calls.  The (character, style) pairs come from a small set that holds   *)
(* pairs differing in the character, in the color, and two pairs whose     *)
(* font family / size / color differ but contain the separator character.  *)
(* The measurement backend answers any width and height from MetricDims:   *)
(* 0 (reading the bitmap fails), small, nearly a page, more than a page.   *)
(***************************************************************************)
StyleWhite == GlyphStyle("m", 14, "#f", FALSE, FALSE)
StyleSepFamily == GlyphStyle("m_14", 1, "#f", FALSE, FALSE)
StyleSepColor == GlyphStyle("m", 14, "1_#f", FALSE, FALSE)

Pair(c, s) == [char |-> c, style |-> s]

Pairs ==
    {Pair("a", StyleWhite), Pair("b", StyleWhite),
     Pair("a", StyleSepFamily), Pair("a", StyleSepColor)}

MetricDims == {0, 1, PageSize - 1, PageSize + 1}

Metrics == [width : MetricDims, height : MetricDims]

NoCall ==
    [pair |-> Pair("", StyleWhite), repeat |-> FALSE, glyph |-> NoGlyph, threw |-> FALSE,
     rasterized |-> FALSE, atlasChanged |-> FALSE]

Init ==
    /\ textureAtlas = NewAtlas(PageSize)
    /\ lastCall = NoCall
    /\ firstReturn = <<>>
    /\ font = [width |-> 1, height |-> 1]
    /\ prewarmPos = 0
    /\ renderer = NewRenderer
    /\ frame = NoFrame
    /\ previousFrame = NoFrame
    /\ monospaceOpt = NewMonospaceOptimizer
    /\ optCall = NoOptCall
    /\ widthCache = NewLineWidthCache
    /\ widthLog = <<>>
    /\ gpuEnv = GoodEnv
    /\ editor = NewEditor
    /\ selectionManager = NewSelectionManager
    /\ selectionLog = <<>>
    /\ editorFields = NewEditorFields
    /\ inputHandler = NewInputHandler
    /\ gesture = NoGesture
    /\ editorFrame = NoEditorFrame
    /\ dirty = FALSE
    /\ layoutWidthCache = NewLineWidthCache
    /\ pointer = "idle"
    /\ viewportCall = NoViewportCall
    /\ documentCall = NoDocumentCall
    /\ highlighter = NewSyntaxHighlighter

\* What a call getGlyph(pair.char, pair.style) that answered r was seen to do.
Observed(pair, r) ==
    /\ textureAtlas' = r.atlas
    /\ lastCall' = [pair |-> pair,
                    repeat |-> pair \in DOMAIN firstReturn,
                    glyph |-> r.glyph,
                    threw |-> r.threw,
                    rasterized |-> r.rasterized,
                    atlasChanged |-> r.atlas # textureAtlas]
    /\ firstReturn' = IF r.threw \/ pair \in DOMAIN firstReturn
                      THEN firstReturn
                      ELSE (pair :> r.glyph) @@ firstReturn

GetGlyphObserved(pair, metrics) ==
    Observed(pair, GetGlyph(textureAtlas, pair.char, pair.style, metrics))

\* The rasterizer is consulted, and so its answer chosen, only on a cache miss.
GetGlyphCall ==
    /\ \E pair \in Pairs :
          IF CacheHas(textureAtlas, MakeKey(pair.char, pair.style))
          THEN GetGlyphObserved(pair, [width |-> 1, height |-> 1])
          ELSE \E metrics \in Metrics : GetGlyphObserved(pair, metrics)
    /\ UNCHANGED <<font, prewarmPos, renderer, frame, previousFrame, monospaceOpt,
                   optCall, widthCache, widthLog, gpuEnv, editor, selectionManager,
                   selectionLog, editorFields, inputHandler, gesture, editorFrame,
                   dirty, layoutWidthCache, pointer, viewportCall, documentCall,
                   highlighter>>

vars == <<textureAtlas, lastCall, firstReturn, font, prewarmPos, renderer, frame,
         previousFrame,
         monospaceOpt,
         optCall,
         widthCache,
         widthLog,
         gpuEnv,
         editor,
         selectionManager,
         selectionLog,
         editorFields,
         inputHandler,
         gesture,
         editorFrame,
         dirty,
         layoutWidthCache,
         pointer,
         viewportCall,
         documentCall,
         highlighter>>

SpecAtlas == Init /\ [][GetGlyphCall]_vars

(***************************************************************************)
(* Derived views of an atlas state used by the properties.                 *)
(***************************************************************************)
\* Do two glyph rectangles [x, x+width) x [y, y+height) share a pixel?
Overlap(g1, g2) ==
    /\ g1.x < g2.x + g2.width
    /\ g2.x < g1.x + g1.width
    /\ g1.y < g2.y + g2.height
    /\ g2.y < g1.y + g1.height

(***************************************************************************)
(* Specification SpecPrewarm: prewarmAtlas walking through its string of   *)
(* common characters, one getGlyph per character, with a font whose glyph  *)
(* boxes all have one size (font), chosen when the session starts.         *)
(***************************************************************************)
InitPrewarm ==
    /\ textureAtlas = NewAtlas(PageSize)
    /\ lastCall = NoCall
    /\ firstReturn = <<>>
    /\ font \in [width : 1..PageSize, height : 1..PageSize]
    /\ prewarmPos = 0
    /\ renderer = NewRenderer
    /\ frame = NoFrame
    /\ previousFrame = NoFrame
    /\ monospaceOpt = NewMonospaceOptimizer
    /\ optCall = NoOptCall
    /\ widthCache = NewLineWidthCache
    /\ widthLog = <<>>
    /\ gpuEnv = GoodEnv
    /\ editor = NewEditor
    /\ selectionManager = NewSelectionManager
    /\ selectionLog = <<>>
    /\ editorFields = NewEditorFields
    /\ inputHandler = NewInputHandler
    /\ gesture = NoGesture
    /\ editorFrame = NoEditorFrame
    /\ dirty = FALSE
    /\ layoutWidthCache = NewLineWidthCache
    /\ pointer = "idle"
    /\ viewportCall = NoViewportCall
    /\ documentCall = NoDocumentCall
    /\ highlighter = NewSyntaxHighlighter

PrewarmStep ==
    /\ prewarmPos < Len(PrewarmChars)
    /\ GetGlyphObserved(Pair(PrewarmChars[prewarmPos + 1], RendererStyle), font)
    /\ prewarmPos' = prewarmPos + 1
    /\ UNCHANGED <<font, renderer, frame, previousFrame, monospaceOpt, optCall,
                   widthCache, widthLog, gpuEnv, editor, selectionManager, selectionLog,
                   editorFields, inputHandler, gesture, editorFrame, dirty,
                   layoutWidthCache, pointer, viewportCall, documentCall, highlighter>>

SpecPrewarm == InitPrewarm /\ [][PrewarmStep]_vars

(***************************************************************************)
(* Specification SpecRenderer: a renderer is initialized once and then     *)
(* asked to render frames.  The session's font has one glyph box for all   *)
(* characters but the zero-width one; a font reporting a height of 0       *)
(* makes every rasterization fail.  A frame is up to MaxLines consecutive  *)
(* lines of the document, each any text of up to MaxLineLen characters.    *)
(***************************************************************************)
FontBoxes ==
    {[width |-> 2, height |-> 2], [width |-> PageSize, height |-> PageSize],
     [width |-> 1, height |-> 0]}

\* "A" is in the prewarm string, the tab is not.
Alphabet == {"A", " ", "\t", ZeroWidthChar}

LineTexts == UNION {[1..n -> Alphabet] : n \in 0..MaxLineLen}

\* The token types the highlighter gives the lines of a frame: each line
\* is one token span, and consecutive lines alternate between two types.
TokenTypeSeq == <<"keyword", "comment">>

\* The tokens of the k-th line of a frame: one span over the whole text.
LineTokens(text, k, shift) ==
    <<[type |-> TokenTypeSeq[((k + shift) % Len(TokenTypeSeq)) + 1], content |-> text,
       startColumn |-> 0, endColumn |-> Len(text)]>>

FrameLines(first, shift) ==
    UNION {{[k \in 1..n |-> [line |-> t[k], tokens |-> LineTokens(t[k], k, shift),
                             lineNumber |-> first + k - 1]] :
              t \in [1..n -> LineTexts]} : n \in 0..MaxLines}

ScrollTops == {0, LineHeight, LineHeight + 1}

\* The environments: everything available, or exactly one thing missing.
Environments ==
    {GoodEnv,
     [GoodEnv EXCEPT !.gpu = FALSE], [GoodEnv EXCEPT !.adapter = FALSE],
     [GoodEnv EXCEPT !.context = FALSE],
     [GoodEnv EXCEPT !.shader = "fetchFails"], [GoodEnv EXCEPT !.shader = "invalid"]}

InitRenderer ==
    /\ textureAtlas = NewAtlas(PageSize)
    /\ lastCall = NoCall
    /\ firstReturn = <<>>
    /\ font \in FontBoxes
    /\ prewarmPos = 0
    /\ renderer = NewRenderer
    /\ frame = NoFrame
    /\ previousFrame = NoFrame
    /\ monospaceOpt = NewMonospaceOptimizer
    /\ optCall = NoOptCall
    /\ widthCache = NewLineWidthCache
    /\ widthLog = <<>>
    /\ gpuEnv \in Environments
    /\ editor = NewEditor
    /\ selectionManager = NewSelectionManager
    /\ selectionLog = <<>>
    /\ editorFields = NewEditorFields
    /\ inputHandler = NewInputHandler
    /\ gesture = NoGesture
    /\ editorFrame = NoEditorFrame
    /\ dirty = FALSE
    /\ layoutWidthCache = NewLineWidthCache
    /\ pointer = "idle"
    /\ viewportCall = NoViewportCall
    /\ documentCall = NoDocumentCall
    /\ highlighter = NewSyntaxHighlighter

\* initialize() after the atlas was prewarmed: the layered texture is
\* created, the atlas data uploaded, the character width measured.
Initialized(r, a, isMonospace, f) ==
    [UploadAtlasData([r EXCEPT !.atlasTexture = CreateTextureArray(a)], a)
        EXCEPT !.state = "ready",
               !.isMonospace = isMonospace,
               !.charWidth = IF isMonospace THEN f.width ELSE @]

\* initialize() from the prewarming on: a failing rasterization makes it
\* fail, and so does a failing fetch of the shader in createRenderPipeline
\* (the layered texture exists by then); a shader that does not compile
\* raises nothing and leaves an invalid pipeline.
AfterPrewarm(pw) ==
    /\ textureAtlas' = pw.atlas
    /\ IF pw.threw
       THEN renderer' = [renderer EXCEPT !.state = "failed"]
       ELSE IF PipelineThrows(gpuEnv)
            THEN renderer' = [renderer EXCEPT !.state = "failed",
                                              !.atlasTexture = CreateTextureArray(pw.atlas)]
            ELSE \E isMonospace \in BOOLEAN :
                    renderer' = [Initialized(renderer, pw.atlas, isMonospace, font)
                                    EXCEPT !.pipelineValid = (gpuEnv.shader = "ok")]

\* Editor.initialize() calling renderer.initialize(): without GPU, adapter
\* or canvas context it throws at once; else the atlas is created and
\* prewarmed and the GPU resources are made.  The Editor starts the render
\* loop unless renderer.initialize() failed.
Initialize ==
    /\ renderer.state = "new"
    /\ IF NoDevice(gpuEnv)
       THEN /\ renderer' = [renderer EXCEPT !.state = "failed"]
            /\ textureAtlas' = textureAtlas
       ELSE AfterPrewarm(PrewarmAtlas(NewAtlas(PageSize), font))
    /\ editor' = EditorAfter(renderer'.state)
    /\ UNCHANGED <<lastCall, firstReturn, font, prewarmPos, frame, previousFrame,
                   monospaceOpt, optCall, widthCache, widthLog, gpuEnv,
                   selectionManager, selectionLog, editorFields, inputHandler, gesture,
                   editorFrame, dirty, layoutWidthCache, pointer, viewportCall,
                   documentCall, highlighter>>

RenderSeen(res) ==
    /\ textureAtlas' = res.atlas
    /\ frame' = res.frame

\* The observation of a render call is kept until the call has returned
\* and been looked at; the calls to render follow one another (the frame
\* callback is never re-entered).
Render ==
    /\ editor.state = "running"
    /\ renderer.state = "ready"
    /\ ~frame.called
    /\ \E first \in 0..MaxFirstLine, scrollTop \in ScrollTops, shift \in 0..1 :
         \E visibleLines \in FrameLines(first, shift) :
            RenderSeen(RenderFrame(renderer, textureAtlas, font, visibleLines, scrollTop))
    /\ UNCHANGED <<lastCall, firstReturn, font, prewarmPos, renderer, previousFrame,
                   monospaceOpt, optCall, widthCache, widthLog, gpuEnv, editor,
                   selectionManager, selectionLog, editorFields, inputHandler, gesture,
                   editorFrame, dirty, layoutWidthCache, pointer, viewportCall,
                   documentCall, highlighter>>

\* The next frame callback finds the document and the scroll position
\* unchanged and calls render again with the same visible lines and the
\* same scrollTop; the observation of the call before is kept beside it.
RenderAgain ==
    /\ editor.state = "running"
    /\ renderer.state = "ready"
    /\ frame.called
    /\ ~previousFrame.called
    /\ RenderSeen(RenderFrame(renderer, textureAtlas, font, frame.visibleLines, frame.scrollTop))
    /\ previousFrame' = frame
    /\ UNCHANGED <<lastCall, firstReturn, font, prewarmPos, renderer, monospaceOpt,
                   optCall, widthCache, widthLog, gpuEnv, editor, selectionManager,
                   selectionLog, editorFields, inputHandler, gesture, editorFrame,
                   dirty, layoutWidthCache, pointer, viewportCall, documentCall,
                   highlighter>>

\* The render call has returned to the frame callback.
RenderReturns ==
    /\ frame.called
    /\ frame' = NoFrame
    /\ previousFrame' = NoFrame
    /\ UNCHANGED <<textureAtlas, lastCall, firstReturn, font, prewarmPos, renderer,
                   monospaceOpt, optCall, widthCache, widthLog, gpuEnv, editor,
                   selectionManager, selectionLog, editorFields, inputHandler, gesture,
                   editorFrame, dirty, layoutWidthCache, pointer, viewportCall,
                   documentCall, highlighter>>

SpecRenderer == InitRenderer /\ [][Initialize \/ Render \/ RenderAgain \/ RenderReturns]_vars

(***************************************************************************)
(* Properties of the texture atlas.                                        *)
(***************************************************************************)

\* C1: a getGlyph call for a (character, style) pair that an earlier call
\* already returned a glyph for returns the very glyph of that first call
\* (same page, index, x, y, width, height), without rasterizing and
\* without changing the atlas (no page, no shelf cursor, no cache entry,
\* no texture write), whatever was cached in between.
C1_RepeatedGetGlyphIsCached ==
    lastCall.repeat =>
        /\ ~lastCall.threw
        /\ lastCall.glyph = firstReturn[lastCall.pair]
        /\ ~lastCall.rasterized
        /\ ~lastCall.atlasChanged

\* A repeated call for the first glyph after two more glyphs and a second
\* page were created.
C1_Witness ==
    /\ lastCall.repeat
    /\ lastCall.glyph.index = 0
    /\ textureAtlas.nextGlyphIndex = 3
    /\ GetPageCount(textureAtlas) >= 2

\* C2: the glyph indices of the (character, style) pairs requested so far
\* are pairwise different and are exactly 0 .. k-1, k the number of
\* distinct pairs requested.
C2_IndicesUniqueAndDense ==
    LET requested == DOMAIN firstReturn
    IN /\ \A p, q \in requested :
             p # q => firstReturn[p].index # firstReturn[q].index
       /\ {firstReturn[p].index : p \in requested} = 0..(Cardinality(requested) - 1)

\* C3: no two cached glyphs on the same page have overlapping pixel
\* rectangles.
C3_NoOverlap ==
    \A g1, g2 \in CacheValues(textureAtlas) :
        (g1 # g2 /\ g1.page = g2.page) => ~Overlap(g1, g2)

\* Three glyphs on one page, in two rows, two of them side by side.
C3_Witness ==
    \E g1, g2, g3 \in CacheValues(textureAtlas) :
        /\ g1.page = g2.page /\ g2.page = g3.page
        /\ g1.y = g2.y /\ g1.x < g2.x
        /\ g3.y > g1.y
        /\ g1.height # g2.height

\* C4: every page's shelf cursor stays within the page and every cached
\* glyph's rectangle lies entirely inside its page.
C4_WithinPage ==
    LET a == textureAtlas
    IN /\ \A p \in 1..Len(a.pages) :
             /\ 0 <= a.pages[p].x /\ a.pages[p].x <= a.pageSize
             /\ 0 <= a.pages[p].y /\ a.pages[p].y <= a.pageSize
       /\ \A g \in CacheValues(a) :
             /\ g.x + g.width <= a.pageSize
             /\ g.y + g.height <= a.pageSize

\* C5: with glyphs of one size w x h, page 0 receives exactly
\* floor(pageSize/w) * floor(pageSize/h) glyphs, laid out in full rows of
\* floor(pageSize/w) glyphs; the next glyph makes the page count 2 and
\* lies at (0, 0) on page 1.
C5_UniformGlyphsFillPage ==
    LET a == textureAtlas
        w == font.width
        h == font.height
        perRow == a.pageSize \div w
        rows == a.pageSize \div h
        cap == perRow * rows
        k == a.nextGlyphIndex
        onPage0 == {g \in CacheValues(a) : g.page = 0}
    IN /\ Cardinality(onPage0) = (IF k < cap THEN k ELSE cap)
       /\ \A g \in onPage0 :
             /\ g.index < cap
             /\ g.x = (g.index % perRow) * w
             /\ g.y = (g.index \div perRow) * h
       /\ k <= cap => GetPageCount(a) = 1
       /\ k = cap + 1 => GetPageCount(a) = 2
       /\ k > cap => \E g \in CacheValues(a) :
                        g.index = cap /\ g.page = 1 /\ g.x = 0 /\ g.y = 0

\* 2 x 2 glyphs: the glyph after the last one that fits has just been cached.
C5_Witness ==
    /\ font = [width |-> 2, height |-> 2]
    /\ textureAtlas.nextGlyphIndex = (PageSize \div 2) * (PageSize \div 2) + 1
    /\ GetPageCount(textureAtlas) = 2

\* C8: getGlyphInfoArray() has exactly 6 numbers per cached glyph and its
\* positions 6i .. 6i+5 hold x, y, width, height, origin x, origin y of
\* the cached glyph whose index is i.
C8_GlyphInfoArray ==
    LET a == textureAtlas
        data == GetGlyphInfoArray(a)
        k == Cardinality(DOMAIN a.glyphCache)
    IN /\ Len(data) = 6 * k
       /\ \A i \in 0..(k - 1) :
             \E g \in CacheValues(a) :
                /\ g.index = i
                /\ \A h \in CacheValues(a) : h.index = i => h = g
                /\ SubSeq(data, 6 * i + 1, 6 * i + 6)
                     = <<g.x, g.y, g.width, g.height, g.offsetX, g.offsetY>>

\* Three glyphs on two pages, one of them not square and not at x = 0.
C8_Witness ==
    /\ textureAtlas.nextGlyphIndex = 3
    /\ GetPageCount(textureAtlas) = 2
    /\ \E g \in CacheValues(textureAtlas) : g.width # g.height /\ g.x > 0

(***************************************************************************)
(* Properties of the renderer.  A state in which frame.called holds is the *)
(* moment a render call has ended; if frame.draws is not empty, its draw   *)
(* has been submitted with the GPU resources as they are in that state.    *)
(***************************************************************************)

\* The visible characters of a frame that are not skipped as whitespace,
\* in scan order (lines in the order given, columns left to right), each
\* with the pixel position of its Cell, its column and the tokens of its line.
ScanOrder(visibleLines, scrollTop, r) ==
    LET cellsOf(ld) ==
            LET y == (ld.lineNumber * r.lineHeight) - scrollTop
            IN IF IsOffScreen(y, r.lineHeight, CanvasHeight) THEN <<>>
               ELSE SelectSeq([i \in 1..Len(ld.line) |->
                                  [char |-> ld.line[i], x |-> (i - 1) * r.charWidth, y |-> y,
                                   column |-> i - 1, tokens |-> ld.tokens]],
                              LAMBDA c : c.char # " ")
        flat[k \in 0..Len(visibleLines)] ==
            IF k = 0 THEN <<>> ELSE flat[k - 1] \o cellsOf(visibleLines[k])
    IN flat[Len(visibleLines)]

\* The number of glyph metadata entries uploaded to the glyph-info buffer.
UploadedGlyphCount == Len(renderer.glyphInfoStorageBuffer) \div FloatsPerGlyph

\* C6: when a draw is submitted, the glyph index of every Cell of the
\* instance data is less than the number of glyph metadata entries that
\* have been uploaded to the glyph-info buffer.
C6_DrawnGlyphsHaveMetadata ==
    (frame.called /\ frame.draws # <<>>) =>
        \A i \in 1..Len(frame.cellWrite) :
            frame.cellWrite[i].glyphIndex < UploadedGlyphCount

\* C7: when a draw is submitted, every Cell's layer is less than the
\* number of layers of the layered texture and that layer holds a copy of
\* the page of that index as the atlas has it.
C7_DrawnLayersHoldPages ==
    (frame.called /\ frame.draws # <<>>) =>
        \A i \in 1..Len(frame.cellWrite) :
            LET layer == frame.cellWrite[i].textureLayer
            IN /\ layer < renderer.atlasTexture.layers
               /\ renderer.atlasTexture.content[layer + 1] = textureAtlas.textures[layer + 1]

\* C9: every render call of a frame with N visible non-whitespace
\* characters, 0 <= N <= capacity, issues exactly one draw, of 6 vertices
\* and N instances, and exactly one queue submission.
C9_OneDrawOneSubmit ==
    frame.called =>
        LET n == Len(ScanOrder(frame.visibleLines, frame.scrollTop, renderer))
        IN n <= MAX_VISIBLE_GLYPHS =>
              /\ frame.draws = <<[vertexCount |-> 6, instanceCount |-> n]>>
              /\ frame.submits = 1

\* C10: a render call of a frame with more visible non-whitespace
\* characters than the capacity raises no error, writes no Cell past the
\* end of the instance array, and draws exactly `capacity` instances: the
\* Cells of the first `capacity` characters in scan order.
C10_OverCapacityTruncates ==
    frame.called =>
        LET all == ScanOrder(frame.visibleLines, frame.scrollTop, renderer)
        IN Len(all) > MAX_VISIBLE_GLYPHS =>
              /\ ~frame.threw
              /\ frame.cellIndex <= MAX_VISIBLE_GLYPHS * FLOATS_PER_CELL
              /\ frame.draws = <<[vertexCount |-> 6, instanceCount |-> MAX_VISIBLE_GLYPHS]>>
              /\ Len(frame.cellWrite) = MAX_VISIBLE_GLYPHS
              /\ \A i \in 1..MAX_VISIBLE_GLYPHS :
                    /\ frame.cellWrite[i].positionX = all[i].x
                    /\ frame.cellWrite[i].positionY = all[i].y

\* C11: for every frame within capacity the filled prefix of the instance
\* array is the reference sequence: one Cell per visible character that is
\* not a skipped space, in scan order, at x = column * charWidth and
\* y = lineNumber * lineHeight - scrollTop, with the glyph index and page
\* of the atlas entry of the character; different characters reference
\* different glyph indices.
C11_CellsEqualReference ==
    frame.called =>
        LET all == ScanOrder(frame.visibleLines, frame.scrollTop, renderer)
            entry(c) == textureAtlas.glyphCache[MakeKey(c, RendererStyle)]
        IN Len(all) <= MAX_VISIBLE_GLYPHS =>
              /\ frame.cellIndex = Len(all) * FLOATS_PER_CELL
              /\ Len(frame.cellData) = Len(all)
              /\ \A i \in 1..Len(all) :
                    /\ CacheHas(textureAtlas, MakeKey(all[i].char, RendererStyle))
                    /\ frame.cellData[i] = Cell(all[i].x, all[i].y,
                                                entry(all[i].char).index,
                                                entry(all[i].char).page)
              /\ \A i, j \in 1..Len(all) :
                    all[i].char # all[j].char =>
                        frame.cellData[i].glyphIndex # frame.cellData[j].glyphIndex

\* C12: two consecutive render calls with the same visible lines, the same
\* scrollTop and the same canvas size produce the same instance data (the
\* same number of Cells, the same Cells in the same order), the same
\* upload and the same draw, also when the first of the two cached glyphs.
C12_SameFrameSameCells ==
    (frame.called /\ previousFrame.called) =>
        /\ frame.visibleLines = previousFrame.visibleLines
        /\ frame.scrollTop = previousFrame.scrollTop
        /\ frame.glyphCount = previousFrame.glyphCount
        /\ frame.cellData = previousFrame.cellData
        /\ frame.cellWrite = previousFrame.cellWrite
        /\ frame.draws = previousFrame.draws

\* The second of two equal frames has been rendered; the first one cached
\* a glyph (it wrote a texture), opened a new page for it and drew.
C12_Witness ==
    /\ frame.called /\ previousFrame.called
    /\ \E i \in 1..Len(previousFrame.calls) : previousFrame.calls[i] = "writeTexture"
    /\ frame.draws # <<>>
    /\ \E i \in 1..Len(frame.cellWrite) :
          frame.cellWrite[i].textureLayer >= renderer.atlasTexture.layers

(***************************************************************************)
(* Specification SpecMonospace: a MonospaceOptimizer on which              *)
(* detectMonospace is called for fonts of any probe widths and             *)
(* getCharPosition for any column and text.                                *)
(***************************************************************************)
\* Probe widths: 6.00, 6.09 (within the tolerance of 6.00) and 6.10 px (not).
ProbeWidths == {600, 609, 610}

\* The fonts detectMonospace is called for, each given by the widths of
\* its probe characters: all probes of one width but at most one of them
\* (the first one included), and a font whose probes are all within the
\* tolerance of the first one but not of one another.
ProbeVectors ==
    {[k \in 1..Len(TestChars) |-> IF k = pos THEN other ELSE first] :
        first \in ProbeWidths, other \in ProbeWidths, pos \in 1..Len(TestChars)}
    \cup {<<609, 600, 610, 609, 600, 610, 609>>}

MaxColumn == 3

MaxTextLen == 2

Texts == {NoText} \cup UNION {[1..n -> {"i", "M"}] : n \in 0..MaxTextLen}

InitMonospace ==
    /\ textureAtlas = NewAtlas(PageSize)
    /\ lastCall = NoCall
    /\ firstReturn = <<>>
    /\ font = [width |-> 1, height |-> 1]
    /\ prewarmPos = 0
    /\ renderer = NewRenderer
    /\ frame = NoFrame
    /\ previousFrame = NoFrame
    /\ monospaceOpt = NewMonospaceOptimizer
    /\ optCall = NoOptCall
    /\ widthCache = NewLineWidthCache
    /\ widthLog = <<>>
    /\ gpuEnv = GoodEnv
    /\ editor = NewEditor
    /\ selectionManager = NewSelectionManager
    /\ selectionLog = <<>>
    /\ editorFields = NewEditorFields
    /\ inputHandler = NewInputHandler
    /\ gesture = NoGesture
    /\ editorFrame = NoEditorFrame
    /\ dirty = FALSE
    /\ layoutWidthCache = NewLineWidthCache
    /\ pointer = "idle"
    /\ viewportCall = NoViewportCall
    /\ documentCall = NoDocumentCall
    /\ highlighter = NewSyntaxHighlighter

DetectMonospaceCall ==
    /\ \E widths \in ProbeVectors :
          /\ monospaceOpt' = DetectMonospace(monospaceOpt, widths)
          /\ optCall' = [NoOptCall EXCEPT !.op = "detectMonospace", !.widths = widths,
                                          !.returned = monospaceOpt'.isMonospace]
    /\ UNCHANGED <<textureAtlas, lastCall, firstReturn, font, prewarmPos, renderer,
                   frame, previousFrame, widthCache, widthLog, gpuEnv, editor,
                   selectionManager, selectionLog, editorFields, inputHandler, gesture,
                   editorFrame, dirty, layoutWidthCache, pointer, viewportCall,
                   documentCall, highlighter>>

GetCharPositionCall ==
    /\ \E column \in 0..MaxColumn, text \in Texts :
          optCall' = [NoOptCall EXCEPT !.op = "getCharPosition", !.column = column,
                                       !.text = text,
                                       !.position = GetCharPosition(monospaceOpt, column, text)]
    /\ UNCHANGED <<textureAtlas, lastCall, firstReturn, font, prewarmPos, renderer,
                   frame, previousFrame, monospaceOpt, widthCache, widthLog, gpuEnv,
                   editor, selectionManager, selectionLog, editorFields, inputHandler,
                   gesture, editorFrame, dirty, layoutWidthCache, pointer, viewportCall,
                   documentCall, highlighter>>

SpecMonospace == InitMonospace /\ [][DetectMonospaceCall \/ GetCharPositionCall]_vars

\* C13: when the detector has declared the font monospace,
\* getCharPosition(column, text) is column * charWidth for every column
\* and text; when it has not, it is the measured width of the first
\* `column` characters of the text.
C13_CharPosition ==
    optCall.op = "getCharPosition" =>
        IF monospaceOpt.isMonospace
        THEN optCall.position = optCall.column * monospaceOpt.charWidth
        ELSE optCall.text # NoText =>
                optCall.position
                  = MeasureWidth(SubSeq(optCall.text, 1,
                                        IF optCall.column < Len(optCall.text)
                                        THEN optCall.column ELSE Len(optCall.text)))

\* Column 3 of a monospace font of width 6.09 px, asked with a text whose
\* measured width differs.
C13_Witness ==
    /\ optCall.op = "getCharPosition"
    /\ monospaceOpt.isMonospace /\ monospaceOpt.charWidth = 609
    /\ optCall.column = 3 /\ optCall.text = <<"i", "M">>
    /\ optCall.position = 1827

\* C14: every call detectMonospace returns true, and leaves isMonospace
\* true, exactly when each probe width differs from the first probe's
\* width by less than 0.1 px, whatever earlier calls returned; when it
\* returns true, charWidth is the first probe's width.
C14_DetectMonospace ==
    optCall.op = "detectMonospace" =>
        /\ optCall.returned = AllEqual(optCall.widths)
        /\ monospaceOpt.isMonospace = AllEqual(optCall.widths)
        /\ optCall.returned => monospaceOpt.charWidth = optCall.widths[1]

(***************************************************************************)
(* Specification SpecWidthCache: a LineWidthCache on which setLineWidth,   *)
(* invalidateLine and clear are called in any order, up to MaxWidthOps     *)
(* calls, for the lines 0 .. MaxWidthLine.                                 *)
(***************************************************************************)
MaxWidthOps == 4

MaxWidthLine == 1

LineWidths == {70, 120}

InitWidthCache ==
    /\ textureAtlas = NewAtlas(PageSize)
    /\ lastCall = NoCall
    /\ firstReturn = <<>>
    /\ font = [width |-> 1, height |-> 1]
    /\ prewarmPos = 0
    /\ renderer = NewRenderer
    /\ frame = NoFrame
    /\ previousFrame = NoFrame
    /\ monospaceOpt = NewMonospaceOptimizer
    /\ optCall = NoOptCall
    /\ widthCache = NewLineWidthCache
    /\ widthLog = <<>>
    /\ gpuEnv = GoodEnv
    /\ editor = NewEditor
    /\ selectionManager = NewSelectionManager
    /\ selectionLog = <<>>
    /\ editorFields = NewEditorFields
    /\ inputHandler = NewInputHandler
    /\ gesture = NoGesture
    /\ editorFrame = NoEditorFrame
    /\ dirty = FALSE
    /\ layoutWidthCache = NewLineWidthCache
    /\ pointer = "idle"
    /\ viewportCall = NoViewportCall
    /\ documentCall = NoDocumentCall
    /\ highlighter = NewSyntaxHighlighter

SetLineWidthCall ==
    /\ Len(widthLog) < MaxWidthOps
    /\ \E lineNumber \in 0..MaxWidthLine, width \in LineWidths :
          /\ widthCache' = SetLineWidth(widthCache, lineNumber, width)
          /\ widthLog' = Append(widthLog, [op |-> "setLineWidth", lineNumber |-> lineNumber,
                                           width |-> width])
    /\ UNCHANGED <<textureAtlas, lastCall, firstReturn, font, prewarmPos, renderer,
                   frame, previousFrame, monospaceOpt, optCall, gpuEnv, editor,
                   selectionManager, selectionLog, editorFields, inputHandler, gesture,
                   editorFrame, dirty, layoutWidthCache, pointer, viewportCall,
                   documentCall, highlighter>>

InvalidateLineCall ==
    /\ Len(widthLog) < MaxWidthOps
    /\ \E lineNumber \in 0..MaxWidthLine :
          /\ widthCache' = InvalidateLine(widthCache, lineNumber)
          /\ widthLog' = Append(widthLog, [op |-> "invalidateLine", lineNumber |-> lineNumber,
                                           width |-> 0])
    /\ UNCHANGED <<textureAtlas, lastCall, firstReturn, font, prewarmPos, renderer,
                   frame, previousFrame, monospaceOpt, optCall, gpuEnv, editor,
                   selectionManager, selectionLog, editorFields, inputHandler, gesture,
                   editorFrame, dirty, layoutWidthCache, pointer, viewportCall,
                   documentCall, highlighter>>

ClearCall ==
    /\ Len(widthLog) < MaxWidthOps
    /\ widthCache' = ClearWidths(widthCache)
    /\ widthLog' = Append(widthLog, [op |-> "clear", lineNumber |-> 0, width |-> 0])
    /\ UNCHANGED <<textureAtlas, lastCall, firstReturn, font, prewarmPos, renderer,
                   frame, previousFrame, monospaceOpt, optCall, gpuEnv, editor,
                   selectionManager, selectionLog, editorFields, inputHandler, gesture,
                   editorFrame, dirty, layoutWidthCache, pointer, viewportCall,
                   documentCall, highlighter>>

SpecWidthCache ==
    InitWidthCache /\ [][SetLineWidthCall \/ InvalidateLineCall \/ ClearCall]_vars

\* The calls of the history that concern line i: those on line i and every clear.
ConcernsLine(entry, i) == entry.op = "clear" \/ entry.lineNumber = i

\* C15: getLineWidth(i) is the width of the most recent setLineWidth(i, w)
\* if no invalidateLine(i) or clear was called since, and undefined
\* otherwise; calls on other lines do not matter.
C15_LineWidthIsLastSet ==
    \A i \in 0..MaxWidthLine :
        LET mine == {k \in 1..Len(widthLog) : ConcernsLine(widthLog[k], i)}
        IN IF mine = {}
           THEN GetLineWidth(widthCache, i) = Undefined
           ELSE LET last == widthLog[MaxOf(mine)]
                IN GetLineWidth(widthCache, i)
                     = (IF last.op = "setLineWidth" THEN Defined(last.width) ELSE Undefined)

\* Line 0 was set twice, line 1 was set and then invalidated.
C15_Witness ==
    /\ Len(widthLog) = 4
    /\ widthLog[1].op = "setLineWidth" /\ widthLog[1].lineNumber = 0
    /\ widthLog[2].op = "setLineWidth" /\ widthLog[2].lineNumber = 1
    /\ widthLog[3].op = "setLineWidth" /\ widthLog[3].lineNumber = 0
    /\ widthLog[3].width # widthLog[1].width
    /\ widthLog[4].op = "invalidateLine" /\ widthLog[4].lineNumber = 1
    /\ GetLineWidth(widthCache, 0) = Defined(widthLog[3].width)

(***************************************************************************)
(* Failure handling of the atlas and the renderer.                         *)
(***************************************************************************)

\* C16: when the rasterizer fails for a character, getGlyph returns a
\* (fallback) glyph and render completes the frame: the failure propagates
\* neither out of getGlyph nor out of render.
C16_RasterizerFailureIsRecovered ==
    /\ ~lastCall.threw
    /\ frame.called => ~frame.threw

\* The maximum page count the atlas is to be configured with; the
\* TextureAtlas has no such parameter.
MaxAtlasPages == 2

\* C17: the number of atlas pages never exceeds the configured maximum
\* page count.
C17_PageCountBounded == GetPageCount(textureAtlas) <= MaxAtlasPages

\* C18: renderer.initialize and, in turn, Editor.initialize fail exactly
\* when no GPU, no adapter or no canvas context is available or the
\* shader/pipeline cannot be created; then the render loop is never
\* started and no frame is rendered; no other condition is surfaced as a
\* failure, neither by initialize nor by render.
C18_OnlyInitializationErrorsSurface ==
    LET initializationError == NoDevice(gpuEnv) \/ gpuEnv.shader # "ok"
    IN /\ renderer.state # "new" =>
             /\ (renderer.state = "failed") = initializationError
             /\ (editor.state = "failed") = initializationError
       /\ initializationError => (editor.state # "running" /\ ~frame.called)
       /\ frame.called => ~frame.threw

\* The type of the token span that contains the column.
TokenTypeAt(tokens, column) ==
    LET k == CHOOSE k \in 1..Len(tokens) :
                 tokens[k].startColumn <= column /\ column < tokens[k].endColumn
    IN tokens[k].type

\* C19: in every frame the glyph of each Cell is the atlas entry for the
\* style whose color is the color mapped from the token type of the span
\* containing the character, so characters of spans with different
\* mapped colors use different cached glyphs.
C19_GlyphColorFromToken ==
    (frame.called /\ ~frame.threw) =>
        LET all == ScanOrder(frame.visibleLines, frame.scrollTop, renderer)
            key(c) == MakeKey(c.char,
                              [RendererStyle EXCEPT
                                  !.color = GetColor(TokenTypeAt(c.tokens, c.column))])
        IN /\ \A i \in 1..Len(frame.cellData) :
                 /\ CacheHas(textureAtlas, key(all[i]))
                 /\ frame.cellData[i].glyphIndex = textureAtlas.glyphCache[key(all[i])].index
           /\ \A i, j \in 1..Len(frame.cellData) :
                 GetColor(TokenTypeAt(all[i].tokens, all[i].column))
                     # GetColor(TokenTypeAt(all[j].tokens, all[j].column))
                 => frame.cellData[i].glyphIndex # frame.cellData[j].glyphIndex

(***************************************************************************)
(* SpecSelection: startSelection, updateSelection and clearSelection       *)
(* called in any order with any positions.                                 *)
(***************************************************************************)
MaxSelectionOps == 3
MaxSelLine == 1
MaxSelColumn == 1

Positions == [line : 0..MaxSelLine, column : 0..MaxSelColumn]

InitSelection ==
    /\ textureAtlas = NewAtlas(PageSize)
    /\ lastCall = NoCall
    /\ firstReturn = <<>>
    /\ font = [width |-> 1, height |-> 1]
    /\ prewarmPos = 0
    /\ renderer = NewRenderer
    /\ frame = NoFrame
    /\ previousFrame = NoFrame
    /\ monospaceOpt = NewMonospaceOptimizer
    /\ optCall = NoOptCall
    /\ widthCache = NewLineWidthCache
    /\ widthLog = <<>>
    /\ gpuEnv = GoodEnv
    /\ editor = NewEditor
    /\ selectionManager = NewSelectionManager
    /\ selectionLog = <<>>
    /\ editorFields = NewEditorFields
    /\ inputHandler = NewInputHandler
    /\ gesture = NoGesture
    /\ editorFrame = NoEditorFrame
    /\ dirty = FALSE
    /\ layoutWidthCache = NewLineWidthCache
    /\ pointer = "idle"
    /\ viewportCall = NoViewportCall
    /\ documentCall = NoDocumentCall
    /\ highlighter = NewSyntaxHighlighter

StartSelectionCall ==
    /\ Len(selectionLog) < MaxSelectionOps
    /\ \E position \in Positions :
         /\ selectionManager' = StartSelection(selectionManager, position)
         /\ selectionLog' = Append(selectionLog, [op |-> "start", position |-> position])
    /\ UNCHANGED <<textureAtlas, lastCall, firstReturn, font, prewarmPos, renderer,
                   frame, previousFrame, monospaceOpt, optCall, widthCache, widthLog,
                   gpuEnv, editor, editorFields, inputHandler, gesture, editorFrame,
                   dirty, layoutWidthCache, pointer, viewportCall, documentCall,
                   highlighter>>

UpdateSelectionCall ==
    /\ Len(selectionLog) < MaxSelectionOps
    /\ \E position \in Positions :
         /\ selectionManager' = UpdateSelection(selectionManager, position)
         /\ selectionLog' = Append(selectionLog, [op |-> "update", position |-> position])
    /\ UNCHANGED <<textureAtlas, lastCall, firstReturn, font, prewarmPos, renderer,
                   frame, previousFrame, monospaceOpt, optCall, widthCache, widthLog,
                   gpuEnv, editor, editorFields, inputHandler, gesture, editorFrame,
                   dirty, layoutWidthCache, pointer, viewportCall, documentCall,
                   highlighter>>

ClearSelectionCall ==
    /\ Len(selectionLog) < MaxSelectionOps
    /\ selectionManager' = ClearSelection(selectionManager)
    /\ selectionLog' = Append(selectionLog, [op |-> "clear", position |-> Null])
    /\ UNCHANGED <<textureAtlas, lastCall, firstReturn, font, prewarmPos, renderer,
                   frame, previousFrame, monospaceOpt, optCall, widthCache, widthLog,
                   gpuEnv, editor, editorFields, inputHandler, gesture, editorFrame,
                   dirty, layoutWidthCache, pointer, viewportCall, documentCall,
                   highlighter>>

SpecSelection ==
    InitSelection /\ [][StartSelectionCall \/ UpdateSelectionCall \/ ClearSelectionCall]_vars

\* The calls since the last clearSelection, as indices of the history.
SinceClear ==
    {k \in 1..Len(selectionLog) :
        \A j \in k..Len(selectionLog) : selectionLog[j].op # "clear"}

\* The startSelection calls since the last clearSelection.
StartsSinceClear == {k \in SinceClear : selectionLog[k].op = "start"}

\* (line, column) lexicographic order.
LexLeq(a, b) == a.line < b.line \/ (a.line = b.line /\ a.column <= b.column)

\* C20: getSelection() returns null exactly when no selection was started
\* since the last clearSelection; otherwise it returns {start, end} with
\* start <= end in (line, column) lexicographic order, and start and end
\* are the anchor (the position of the last startSelection) and the head
\* (the position of the last call since), whichever way the selection
\* was made.
C20_GetSelectionOrdered ==
    LET sel == GetSelection(selectionManager)
    IN IF StartsSinceClear = {}
       THEN sel = Null
       ELSE LET lastStart == CHOOSE k \in StartsSinceClear :
                                 \A j \in StartsSinceClear : j <= k
                anchor == selectionLog[lastStart].position
                head == selectionLog[Len(selectionLog)].position
            IN /\ sel # Null
               /\ LexLeq(sel.start, sel.end)
               /\ selectionManager.anchor = anchor
               /\ selectionManager.head = head
               /\ \/ sel.start = anchor /\ sel.end = head
                  \/ sel.start = head /\ sel.end = anchor

\* A selection made backwards: the head was moved before the anchor, and
\* getSelection returns the head as start and the anchor as end.
C20_Witness ==
    /\ StartsSinceClear # {}
    /\ selectionLog[Len(selectionLog)].op = "update"
    /\ ComparePositions(selectionManager.head, selectionManager.anchor) < 0
    /\ GetSelection(selectionManager).start = selectionManager.head
    /\ GetSelection(selectionManager).end = selectionManager.anchor

\* The pixel rows y .. y+lineHeight-1 of a line and the rows
\* 0 .. canvasHeight-1 of the viewport have a row in common.
SharesRow(y, lineHeight, canvasHeight) ==
    \E row \in y..(y + lineHeight - 1) : row \in 0..(canvasHeight - 1)

\* The vertical position of a line of a frame.
LineY(ld, scrollTop, r) == (ld.lineNumber * r.lineHeight) - scrollTop

\* The non-whitespace characters of the lines of a frame that share a row
\* with the viewport, in scan order, with the position of their Cells.
InViewportOrder(visibleLines, scrollTop, r) ==
    LET cellsOf(ld) ==
            IF ~SharesRow(LineY(ld, scrollTop, r), r.lineHeight, CanvasHeight) THEN <<>>
            ELSE SelectSeq([i \in 1..Len(ld.line) |->
                               [char |-> ld.line[i], x |-> (i - 1) * r.charWidth,
                                y |-> LineY(ld, scrollTop, r)]],
                           LAMBDA c : c.char # " ")
        flat[k \in 0..Len(visibleLines)] ==
            IF k = 0 THEN <<>> ELSE flat[k - 1] \o cellsOf(visibleLines[k])
    IN flat[Len(visibleLines)]

\* The non-whitespace characters of the lines of a frame that share a row
\* with the viewport (shares = TRUE) or share none (shares = FALSE).
CharsOfLines(visibleLines, scrollTop, r, shares) ==
    UNION {{visibleLines[k].line[i] : i \in 1..Len(visibleLines[k].line)} :
              k \in {j \in 1..Len(visibleLines) :
                        SharesRow(LineY(visibleLines[j], scrollTop, r), r.lineHeight,
                                  CanvasHeight) = shares}} \ {" "}

\* C25: in every frame (within capacity) a line that shares no pixel row
\* with the viewport produces no Cell and no atlas request (no glyph is
\* cached for a character found on such lines only), and every line that
\* shares a row with the viewport produces its Cells.
C25_CullsLinesOffViewport ==
    [][(frame' # frame /\ frame'.called) =>
          LET all == InViewportOrder(frame'.visibleLines, frame'.scrollTop, renderer)
              culledOnly == CharsOfLines(frame'.visibleLines, frame'.scrollTop, renderer, FALSE)
                            \ CharsOfLines(frame'.visibleLines, frame'.scrollTop, renderer, TRUE)
          IN Len(all) <= MAX_VISIBLE_GLYPHS =>
                /\ Len(frame'.cellData) = Len(all)
                /\ \A i \in 1..Len(all) :
                      /\ frame'.cellData[i].positionX = all[i].x
                      /\ frame'.cellData[i].positionY = all[i].y
                /\ \A c \in culledOnly :
                      CacheHas(textureAtlas', MakeKey(c, RendererStyle))
                          => CacheHas(textureAtlas, MakeKey(c, RendererStyle))]_vars

\* The measured width of the first n characters of a line in a session
\* whose font has the glyph box f.
CumulativeWidth(f, line, n) ==
    LET sum[i \in 0..n] == IF i = 0 THEN 0 ELSE sum[i - 1] + CharMetrics(f, line[i]).width
    IN sum[n]

\* The non-whitespace characters of the lines of a frame that render does
\* not skip, in scan order, with the measured width of the characters
\* before them on their line.
MeasuredOrder(visibleLines, scrollTop, r, f) ==
    LET cellsOf(ld) ==
            IF IsOffScreen(LineY(ld, scrollTop, r), r.lineHeight, CanvasHeight) THEN <<>>
            ELSE SelectSeq([i \in 1..Len(ld.line) |->
                               [char |-> ld.line[i], x |-> CumulativeWidth(f, ld.line, i - 1)]],
                           LAMBDA c : c.char # " ")
        flat[k \in 0..Len(visibleLines)] ==
            IF k = 0 THEN <<>> ELSE flat[k - 1] \o cellsOf(visibleLines[k])
    IN flat[Len(visibleLines)]

\* C26: when the monospace detection of initialize declared the font not
\* monospace, render places the character at column i of a line at the
\* cumulative measured width of the first i characters of the line.
C26_MeasuredPositionsWhenNotMonospace ==
    (frame.called /\ ~frame.threw /\ ~renderer.isMonospace) =>
        LET all == MeasuredOrder(frame.visibleLines, frame.scrollTop, renderer, font)
        IN \A i \in 1..Len(frame.cellData) : frame.cellData[i].positionX = all[i].x

\* The positions of a GPU call in the calls of a frame.
CallIndices(calls, name) == {i \in 1..Len(calls) : calls[i] = name}

\* C27: within every frame that draws, the write of the per-frame layout
\* uniforms and the single write of the instance buffer are queued before
\* the command buffer holding the draw is submitted, and the
\* instance-buffer write covers exactly the Cells counted by the instance
\* count of the draw.
C27_WritesBeforeSubmit ==
    (frame.called /\ frame.draws # <<>>) =>
        /\ Cardinality(CallIndices(frame.calls, "writeBuffer layoutInfo")) = 1
        /\ Cardinality(CallIndices(frame.calls, "writeBuffer cells")) = 1
        /\ Cardinality(CallIndices(frame.calls, "submit")) = 1
        /\ \A w \in CallIndices(frame.calls, "writeBuffer layoutInfo")
                    \cup CallIndices(frame.calls, "writeBuffer cells")
                    \cup CallIndices(frame.calls, "draw") :
              \A s \in CallIndices(frame.calls, "submit") : w < s
        /\ Len(frame.draws) = 1
        /\ Len(frame.cellWrite) = frame.draws[1].instanceCount
        /\ frame.cellWrite = SubSeq(frame.cellData, 1, frame.draws[1].instanceCount)
        /\ frame.cellIndex = frame.draws[1].instanceCount * FLOATS_PER_CELL

\* A frame that cached a glyph, wrote two Cells and drew them.
C27_Witness ==
    /\ frame.called
    /\ frame.draws # <<>>
    /\ frame.draws[1].instanceCount = 2
    /\ CallIndices(frame.calls, "writeTexture") # {}

(***************************************************************************)
(* Specification SpecInput: an Editor after its constructor (the document  *)
(* is empty, the listeners of the InputHandler are attached) receiving     *)
(* any sequence of input, keydown, wheel and mouse events.  The browser    *)
(* delivers a click right after a mouseup that follows a mousedown on the  *)
(* canvas.  Events that would make the document larger than MaxDocLines    *)
(* lines of MaxDocLineLen characters, or take the cursor beyond line       *)
(* MaxCursorLine or column MaxCursorColumn, are left out.                  *)
(***************************************************************************)
MaxDocLines == 2
MaxDocLineLen == 1
MaxCursorLine == 2
MaxCursorColumn == 4

\* The texts of input events: a typed character and a text with a newline.
InputData == {<<"A">>, <<"A", "\n", "A">>}

Keys == ShiftKeys \cup {"Backspace", "Delete", "Enter", "Tab"}

WheelDeltas == {LineHeight, 0 - LineHeight}

\* Pixels of the canvas, one inside each character cell of the document
\* area and of the line below it.
MouseXs == {(c * CharWidthDefault) + 3 : c \in 0..MaxDocLineLen}
MouseYs == {(l * LineHeight) + 5 : l \in 0..MaxDocLines}

Fits(d) ==
    /\ Len(d.lines) <= MaxDocLines
    /\ \A k \in 1..Len(d.lines) : Len(d.lines[k]) <= MaxDocLineLen

\* The fields of the Editor and of the objects its operations write.
Es ==
    [document |-> editorFields.document, cursorLine |-> editorFields.cursorLine,
     cursorColumn |-> editorFields.cursorColumn, scrollTop |-> editorFields.scrollTop,
     needsRender |-> editorFields.needsRender,
     selectionManager |-> selectionManager, widthCache |-> widthCache,
     tokenCache |-> highlighter.tokenCache]

\* What a frame shows of the Editor.
Shown(es) == <<es.document, es.scrollTop, es.cursorLine, es.cursorColumn, es.selectionManager>>

\* A handler has left the Editor as es.
EditorBecomes(es) ==
    /\ Fits(es.document)
    /\ es.cursorLine <= MaxCursorLine
    /\ es.cursorColumn <= MaxCursorColumn
    /\ editorFields' = [document |-> es.document, cursorLine |-> es.cursorLine,
                        cursorColumn |-> es.cursorColumn, scrollTop |-> es.scrollTop,
                        needsRender |-> es.needsRender]
    /\ selectionManager' = es.selectionManager
    /\ widthCache' = es.widthCache
    /\ highlighter' = [highlighter EXCEPT !.tokenCache = es.tokenCache]
    /\ dirty' = (dirty \/ Shown(es) # Shown(Es))

\* The document position of the pixel (x, y) of a mouse event.
MousePosition(x, y) ==
    GetMousePosition(x, y, editorFields.scrollTop, renderer.lineHeight, renderer.charWidth)

InitInput ==
    /\ textureAtlas = NewAtlas(PageSize)
    /\ lastCall = NoCall
    /\ firstReturn = <<>>
    /\ font = [width |-> 2, height |-> 2]
    /\ prewarmPos = 0
    /\ renderer = NewRenderer
    /\ frame = NoFrame
    /\ previousFrame = NoFrame
    /\ monospaceOpt = NewMonospaceOptimizer
    /\ optCall = NoOptCall
    /\ widthCache = NewLineWidthCache
    /\ widthLog = <<>>
    /\ gpuEnv = GoodEnv
    /\ editor = NewEditor
    /\ selectionManager = NewSelectionManager
    /\ selectionLog = <<>>
    /\ editorFields = NewEditorFields
    /\ inputHandler = NewInputHandler
    /\ gesture = NoGesture
    /\ editorFrame = NoEditorFrame
    /\ dirty = FALSE
    /\ layoutWidthCache = NewLineWidthCache
    /\ pointer = "idle"
    /\ viewportCall = NoViewportCall
    /\ documentCall = NoDocumentCall
    /\ highlighter = NewSyntaxHighlighter

InputEvent ==
    /\ ~editorFrame.ran
    /\ pointer # "released"
    /\ \E data \in InputData : EditorBecomes(HandleInput(Es, data))
    /\ gesture' = NoGesture
    /\ UNCHANGED <<textureAtlas, lastCall, firstReturn, font, prewarmPos, renderer,
                   frame, previousFrame, monospaceOpt, optCall, widthLog, gpuEnv,
                   editor, selectionLog, inputHandler, editorFrame, layoutWidthCache,
                   pointer, viewportCall, documentCall>>

KeydownEvent ==
    /\ ~editorFrame.ran
    /\ pointer # "released"
    /\ \E key \in Keys, shiftKey \in BOOLEAN : EditorBecomes(HandleKeydown(Es, key, shiftKey))
    /\ gesture' = NoGesture
    /\ UNCHANGED <<textureAtlas, lastCall, firstReturn, font, prewarmPos, renderer,
                   frame, previousFrame, monospaceOpt, optCall, widthLog, gpuEnv,
                   editor, selectionLog, inputHandler, editorFrame, layoutWidthCache,
                   pointer, viewportCall, documentCall>>

WheelEvent ==
    /\ ~editorFrame.ran
    /\ pointer # "released"
    /\ \E deltaY \in WheelDeltas : EditorBecomes(Scroll(Es, deltaY))
    /\ gesture' = NoGesture
    /\ UNCHANGED <<textureAtlas, lastCall, firstReturn, font, prewarmPos, renderer,
                   frame, previousFrame, monospaceOpt, optCall, widthLog, gpuEnv,
                   editor, selectionLog, inputHandler, editorFrame, layoutWidthCache,
                   pointer, viewportCall, documentCall>>

MouseDownEvent ==
    /\ ~editorFrame.ran
    /\ pointer = "idle"
    /\ \E x \in MouseXs, y \in MouseYs, shiftKey \in BOOLEAN :
         /\ EditorBecomes(HandleMouseDown(Es, MousePosition(x, y), shiftKey))
         /\ gesture' = NextGesture(gesture, "mousedown", <<x, y>>, shiftKey, FALSE)
    /\ inputHandler' = MouseDownFlags(inputHandler)
    /\ pointer' = "pressed"
    /\ UNCHANGED <<textureAtlas, lastCall, firstReturn, font, prewarmPos, renderer,
                   frame, previousFrame, monospaceOpt, optCall, widthLog, gpuEnv,
                   editor, selectionLog, editorFrame, layoutWidthCache, viewportCall,
                   documentCall>>

MouseMoveEvent ==
    /\ ~editorFrame.ran
    /\ pointer # "released"
    /\ \E x \in MouseXs, y \in MouseYs :
         /\ EditorBecomes(HandleMouseMove(Es, inputHandler, MousePosition(x, y)))
         /\ gesture' = NextGesture(gesture, "mousemove", <<x, y>>, FALSE,
                                   inputHandler.isMouseDown)
    /\ inputHandler' = MouseMoveFlags(inputHandler)
    /\ UNCHANGED <<textureAtlas, lastCall, firstReturn, font, prewarmPos, renderer,
                   frame, previousFrame, monospaceOpt, optCall, widthLog, gpuEnv,
                   editor, selectionLog, editorFrame, layoutWidthCache, pointer,
                   viewportCall, documentCall>>

\* The button is released over the canvas; a click follows when it was
\* pressed over the canvas.
MouseUpEvent ==
    /\ ~editorFrame.ran
    /\ pointer # "released"
    /\ inputHandler' = MouseUpFlags(inputHandler)
    /\ pointer' = IF pointer = "pressed" THEN "released" ELSE "idle"
    /\ gesture' = NextGesture(gesture, "mouseup", <<0, 0>>, FALSE, inputHandler.isMouseDown)
    /\ UNCHANGED <<textureAtlas, lastCall, firstReturn, font, prewarmPos, renderer,
                   frame, previousFrame, monospaceOpt, optCall, widthCache, widthLog,
                   gpuEnv, editor, selectionManager, selectionLog, editorFields,
                   editorFrame, dirty, layoutWidthCache, viewportCall, documentCall,
                   highlighter>>

\* The mouse leaves the canvas; a button that is down is released outside
\* of it, so that no click follows.
MouseLeaveEvent ==
    /\ ~editorFrame.ran
    /\ pointer # "released"
    /\ inputHandler' = MouseUpFlags(inputHandler)
    /\ pointer' = "idle"
    /\ gesture' = NoGesture
    /\ UNCHANGED <<textureAtlas, lastCall, firstReturn, font, prewarmPos, renderer,
                   frame, previousFrame, monospaceOpt, optCall, widthCache, widthLog,
                   gpuEnv, editor, selectionManager, selectionLog, editorFields,
                   editorFrame, dirty, layoutWidthCache, viewportCall, documentCall,
                   highlighter>>

ClickEvent ==
    /\ ~editorFrame.ran
    /\ pointer = "released"
    /\ \E x \in MouseXs, y \in MouseYs, shiftKey \in BOOLEAN :
         /\ EditorBecomes(HandleClick(Es, inputHandler, MousePosition(x, y), shiftKey))
         /\ gesture' = NextGesture(gesture, "click", <<x, y>>, shiftKey, FALSE)
    /\ inputHandler' = ClickFlags(inputHandler)
    /\ pointer' = "idle"
    /\ UNCHANGED <<textureAtlas, lastCall, firstReturn, font, prewarmPos, renderer,
                   frame, previousFrame, monospaceOpt, optCall, widthLog, gpuEnv,
                   editor, selectionLog, editorFrame, layoutWidthCache, viewportCall,
                   documentCall>>

SpecInput ==
    InitInput /\ [][InputEvent \/ KeydownEvent \/ WheelEvent \/ MouseDownEvent
                   \/ MouseMoveEvent \/ MouseUpEvent \/ MouseLeaveEvent \/ ClickEvent]_vars

(***************************************************************************)
(* Properties of the Editor under input events.                            *)
(***************************************************************************)

\* C21: from every state with an active selection, a click without Shift,
\* an arrow, Home or End key without Shift (moveCursor), typing text
\* (insertText) and Backspace or Delete (deleteText) leave no selection
\* active.  The click is one that does not end a drag.
C21_PlainInputClearsSelection ==
    HasSelection(selectionManager) =>
        /\ \A key \in ShiftKeys \cup {"Backspace", "Delete"} :
              ~HasSelection(HandleKeydown(Es, key, FALSE).selectionManager)
        /\ \A data \in InputData :
              ~HasSelection(HandleInput(Es, data).selectionManager)
        /\ (pointer = "released" /\ ~inputHandler.isDragging) =>
              \A x \in MouseXs, y \in MouseYs :
                 ~HasSelection(HandleClick(Es, inputHandler, MousePosition(x, y),
                                           FALSE).selectionManager)

\* Is the position one of the document?
ValidPosition(d, position) ==
    /\ 0 <= position.line /\ position.line < GetLineCount(d)
    /\ 0 <= position.column /\ position.column <= Len(GetLine(d, position.line))

\* C22: after a plain click that placed the cursor at position c
\* (mousedown, mouseup, click, no Shift), a Shift+Click at a different
\* valid position p (mousedown, mouseup, click, Shift held) leaves an
\* active selection whose normalized range is the text between c and p.
C22_ShiftClickExtendsFromCursor ==
    LET c == Clamped(editorFields.document,
                     MousePosition(gesture.first[1], gesture.first[2]).line,
                     MousePosition(gesture.first[1], gesture.first[2]).column)
        p == MousePosition(gesture.second[1], gesture.second[2])
    IN (gesture.stage = 6 /\ ValidPosition(editorFields.document, p) /\ p # c) =>
          /\ HasSelection(selectionManager)
          /\ GetSelection(selectionManager) =
                IF LexLeq(c, p) THEN [start |-> c, end |-> p] ELSE [start |-> p, end |-> c]


\* C23: after any sequence of insertText (a typed string, a newline, two
\* spaces, a string containing a newline), deleteText, moveCursor,
\* moveCursorWithSelection, setCursorPosition and
\* setCursorPositionWithoutClearingSelection the cursor is a position of the
\* document: 0 <= cursorLine < lineCount and 0 <= cursorColumn <= length of
\* the cursor's line.
C23_CursorStaysInDocument ==
    /\ 0 <= editorFields.cursorLine
    /\ editorFields.cursorLine < GetLineCount(editorFields.document)
    /\ 0 <= editorFields.cursorColumn
    /\ editorFields.cursorColumn <=
          Len(GetLine(editorFields.document, editorFields.cursorLine))


(***************************************************************************)
(* Specification SpecEditor: an Editor is constructed, initialized with a  *)
(* content and driven by keyboard, text-input and wheel events between     *)
(* the callbacks of its render loop.  A frame callback runs to completion  *)
(* (the program is single-threaded); what it did is kept in editorFrame    *)
(* until it has returned.  editor.state is "running" while a frame         *)
(* callback is scheduled with requestAnimationFrame and "stopped" once a   *)
(* callback has ended without scheduling the next one.  dirty: the         *)
(* document, scroll offset, cursor or selection have changed since the     *)
(* last frame that rendered them.                                          *)
(***************************************************************************)
\* The contents Editor.initialize is called with.
Contents == {<<>>, <<"A">>, <<"A", "\n", "A">>}

\* The texts of input events: a letter, and a zero-width space.
TypedData == {<<"A">>, <<ZeroWidthChar>>}

\* Everything available, or no GPU.
EditorEnvironments == {GoodEnv, [GoodEnv EXCEPT !.gpu = FALSE]}

\* The lines of ScreenReaderSupport's textarea page.
ScreenReaderPageSize == 50

\* ScreenReaderSupport.updateContent throws when the loop over the lines
\* before the cursor reads a line the page does not hold.
UpdateContentThrows(d, cursorLine) ==
    LET startLine == (cursorLine \div ScreenReaderPageSize) * ScreenReaderPageSize
        endLine == Min(startLine + ScreenReaderPageSize, GetLineCount(d))
    IN \E i \in 0..(cursorLine - startLine - 1) : ~(i < endLine - startLine)

\* The visibleLines the frame callback builds: the lines of the visible
\* range, each with the tokens of one span.
VisibleLines(d, scrollTop) ==
    LET range == GetVisibleLineRange(scrollTop, GetLineCount(d), LineHeight, CanvasHeight)
    IN [k \in 1..(range.endLine - range.startLine + 1) |->
          [line |-> GetLine(d, range.startLine + k - 1),
           tokens |-> LineTokens(GetLine(d, range.startLine + k - 1), k, 0),
           lineNumber |-> range.startLine + k - 1]]

\* The width render lays a line out with when the cache has none.
LayoutWidth(r, line) ==
    IF r.isMonospace
    THEN Len(line) * r.charWidth
    ELSE GetCharPosition([isMonospace |-> FALSE, charWidth |-> r.charWidth],
                         Len(line), line)

\* The beginning of one iteration of render's loop over visibleLines: the
\* renderer's width cache is asked for the line and filled when it has no
\* entry.
LayoutLine(c, r, lineData) ==
    IF GetLineWidth(c, lineData.lineNumber).defined THEN c
    ELSE SetLineWidth(c, lineData.lineNumber, LayoutWidth(r, lineData.line))

\* Does getGlyph throw for a character of the line?
LineThrows(f, line) ==
    \E i \in 1..Len(line) : Rasterize(CharMetrics(f, line[i])).error

\* The renderer's width cache after render(visibleLines): the loop ends
\* in the line whose glyph cannot be rasterized.
LayoutLines(c, r, f, visibleLines) ==
    LET after[k \in 0..Len(visibleLines)] ==
            IF k = 0 THEN c
            ELSE IF \E j \in 1..(k - 1) : LineThrows(f, visibleLines[j].line)
                 THEN after[k - 1]
                 ELSE LayoutLine(after[k - 1], r, visibleLines[k])
    IN after[Len(visibleLines)]

\* A frame callback that leaves the request in place.
KeepRequest(fields) == fields

\* The frame callback takes the render request.
TakeRequest(fields) == [fields EXCEPT !.needsRender = FALSE]

InitEditor ==
    /\ textureAtlas = NewAtlas(PageSize)
    /\ lastCall = NoCall
    /\ firstReturn = <<>>
    /\ font = [width |-> 2, height |-> 2]
    /\ prewarmPos = 0
    /\ renderer = NewRenderer
    /\ frame = NoFrame
    /\ previousFrame = NoFrame
    /\ monospaceOpt = NewMonospaceOptimizer
    /\ optCall = NoOptCall
    /\ widthCache = NewLineWidthCache
    /\ widthLog = <<>>
    /\ gpuEnv \in EditorEnvironments
    /\ editor = NewEditor
    /\ selectionManager = NewSelectionManager
    /\ selectionLog = <<>>
    /\ editorFields = NewEditorFields
    /\ inputHandler = NewInputHandler
    /\ gesture = NoGesture
    /\ editorFrame = NoEditorFrame
    /\ dirty = FALSE
    /\ layoutWidthCache = NewLineWidthCache
    /\ pointer = "idle"
    /\ viewportCall = NoViewportCall
    /\ documentCall = NoDocumentCall
    /\ highlighter = NewSyntaxHighlighter

\* Editor.initialize(content): the document is replaced, the renderer
\* initialized and, unless that failed, the render loop started with a
\* render request.
EditorInitialize ==
    /\ editor.state = "constructed"
    /\ IF NoDevice(gpuEnv)
       THEN /\ renderer' = [renderer EXCEPT !.state = "failed"]
            /\ textureAtlas' = textureAtlas
       ELSE AfterPrewarm(PrewarmAtlas(NewAtlas(PageSize), font))
    /\ editor' = EditorAfter(renderer'.state)
    /\ \E content \in Contents :
          editorFields' = [editorFields EXCEPT
                              !.document = NewDocument(content),
                              !.needsRender = (renderer'.state # "failed") \/ @]
    /\ dirty' = TRUE
    /\ UNCHANGED <<lastCall, firstReturn, font, prewarmPos, frame, previousFrame,
                   monospaceOpt, optCall, widthCache, widthLog, gpuEnv,
                   selectionManager, selectionLog, inputHandler, gesture, editorFrame,
                   layoutWidthCache, pointer, viewportCall, documentCall, highlighter>>

\* An input event of the textarea.
TextInputEvent ==
    /\ ~editorFrame.ran
    /\ \E data \in TypedData : EditorBecomes(HandleInput(Es, data))
    /\ UNCHANGED <<textureAtlas, lastCall, firstReturn, font, prewarmPos, renderer,
                   frame, previousFrame, monospaceOpt, optCall, widthLog, gpuEnv,
                   editor, selectionLog, inputHandler, gesture, editorFrame,
                   layoutWidthCache, pointer, viewportCall, documentCall>>

\* The highlighter after the loop of the frame callback over the visible
\* range, which asks getCachedTokens for the tokens of each line.
TokensOfFrame(tokenCache, d, scrollTop) ==
    [tokenCache |->
         CachedAfter(tokenCache, d.lines,
                     GetVisibleLineRange(scrollTop, GetLineCount(d), LineHeight,
                                         CanvasHeight).startLine,
                     GetVisibleLineRange(scrollTop, GetLineCount(d), LineHeight,
                                         CanvasHeight).endLine),
     obtained |->
         [k \in 1..Len(VisibleLines(d, scrollTop)) |->
             [lineNumber |-> VisibleLines(d, scrollTop)[k].lineNumber,
              tokens |-> GetCachedTokens(tokenCache,
                                         VisibleLines(d, scrollTop)[k].lineNumber,
                                         VisibleLines(d, scrollTop)[k].line)]]]

\* The work of a frame after needsRender was reset: res is what
\* renderer.render did; the overlays, the screen reader and the ARIA
\* attributes follow unless it threw, and the next callback is scheduled
\* when nothing threw.
FrameWork(res, screenReaderThrows) ==
    /\ editorFields' = TakeRequest(editorFields)
    /\ textureAtlas' = res.atlas
    /\ frame' = res.frame
    /\ layoutWidthCache' = LayoutLines(layoutWidthCache, renderer, font,
                                       res.frame.visibleLines)
    /\ highlighter' = TokensOfFrame(highlighter.tokenCache, editorFields.document,
                                    editorFields.scrollTop)
    /\ editorFrame' = [ran |-> TRUE, foundNeedsRender |-> TRUE,
                       renderCalls |-> 1,
                       selectionRenderCalls |-> IF res.frame.threw THEN 0 ELSE 1,
                       cursorRenderCalls |-> IF res.frame.threw THEN 0 ELSE 1,
                       threw |-> res.frame.threw \/ screenReaderThrows,
                       fieldsBefore |-> Es]
    /\ dirty' = (dirty /\ res.frame.threw)
    /\ editor' = IF res.frame.threw \/ screenReaderThrows
                 THEN [state |-> "stopped"]
                 ELSE editor

\* The callback of requestAnimationFrame.
FrameCallback ==
    /\ editor.state = "running"
    /\ ~editorFrame.ran
    /\ IF editorFields.needsRender
       THEN FrameWork(RenderFrame(renderer, textureAtlas, font,
                                  VisibleLines(editorFields.document,
                                               editorFields.scrollTop),
                                  editorFields.scrollTop),
                      UpdateContentThrows(editorFields.document, editorFields.cursorLine))
       ELSE /\ editorFrame' = [NoEditorFrame EXCEPT !.ran = TRUE, !.fieldsBefore = Es]
            /\ UNCHANGED <<editorFields, textureAtlas, frame, layoutWidthCache, dirty,
                           editor, highlighter>>
    /\ UNCHANGED <<lastCall, firstReturn, font, prewarmPos, renderer, previousFrame,
                   monospaceOpt, optCall, widthCache, widthLog, gpuEnv,
                   selectionManager, selectionLog, inputHandler, gesture, pointer,
                   viewportCall, documentCall>>

\* The frame callback has returned.
FrameReturns ==
    /\ editorFrame.ran
    /\ editorFrame' = NoEditorFrame
    /\ frame' = NoFrame
    /\ highlighter' = [highlighter EXCEPT !.obtained = <<>>]
    /\ UNCHANGED <<textureAtlas, lastCall, firstReturn, font, prewarmPos, renderer,
                   previousFrame, monospaceOpt, optCall, widthCache, widthLog, gpuEnv,
                   editor, selectionManager, selectionLog, editorFields, inputHandler,
                   gesture, dirty, layoutWidthCache, pointer, viewportCall, documentCall>>

EditorNext ==
    \/ EditorInitialize
    \/ TextInputEvent
    \/ KeydownEvent
    \/ WheelEvent
    \/ FrameCallback
    \/ FrameReturns

SpecEditor == InitEditor /\ [][EditorNext]_vars

\* A frame callback is scheduled and none is running.
FrameScheduled == editor.state = "running" /\ ~editorFrame.ran

\* What a frame callback can leave in editorFrame.
FrameObservations ==
    {[ran |-> TRUE, foundNeedsRender |-> found, renderCalls |-> calls,
      selectionRenderCalls |-> overlayCalls, cursorRenderCalls |-> overlayCalls,
      threw |-> threw, fieldsBefore |-> Es] :
        found \in BOOLEAN, calls \in 0..1, overlayCalls \in 0..1, threw \in BOOLEAN}

\* A step of the frame callback, told by what it does to editorFrame:
\* FrameCallback is the one action that sets editorFrame.ran, and it can
\* do so whenever a callback is scheduled.
FrameRuns == FrameScheduled /\ editorFrame' \in FrameObservations

\* The steps of FrameRuns are those of FrameCallback.
FrameRunsIsFrameCallback == [][FrameRuns <=> FrameCallback]_vars

\* The render loop under fairness: the browser runs a scheduled frame
\* callback (requestAnimationFrame), and a running callback returns.
SpecEditorFair ==
    /\ InitEditor
    /\ [][EditorNext]_vars
    /\ WF_editorFrame(FrameRuns)
    /\ WF_vars(FrameReturns)


\* C24: after any Editor.insertText or Editor.deleteText (a newline and a
\* Backspace joining two lines included) the width cache consulted when
\* lines are laid out holds no entry for a line whose text has changed
\* since the entry was stored: every width it holds is the width of the
\* line's text as it is now.
C24_LayoutWidthsAreFresh ==
    \A lineNumber \in DOMAIN layoutWidthCache.cache :
        layoutWidthCache.cache[lineNumber] =
            LayoutWidth(renderer, GetLine(editorFields.document, lineNumber))

\* The fields of the Editor have their values of before the callback,
\* needsRender and the token cache the frame fills apart.
FieldsKept ==
    [Es EXCEPT !.needsRender = FALSE, !.tokenCache = <<>>] =
        [editorFrame.fieldsBefore EXCEPT !.needsRender = FALSE, !.tokenCache = <<>>]

\* C28: a frame callback that finds needsRender false calls no renderer
\* (glyphs, selection, cursor) and changes no state of the Editor; one
\* that finds it true resets it before the frame's work (it is false even
\* when the work threw) and calls the glyph renderer exactly once.
C28_NeedsRenderGatesTheFrame ==
    editorFrame.ran =>
        IF editorFrame.foundNeedsRender
        THEN /\ editorFrame.fieldsBefore.needsRender
             /\ ~editorFields.needsRender
             /\ editorFrame.renderCalls = 1
             /\ frame.called
             /\ FieldsKept
        ELSE /\ ~editorFrame.fieldsBefore.needsRender
             /\ editorFrame.renderCalls = 0
             /\ editorFrame.selectionRenderCalls = 0
             /\ editorFrame.cursorRenderCalls = 0
             /\ ~frame.called
             /\ Es = editorFrame.fieldsBefore
             /\ editor.state = "running"

\* A callback that found the flag set, reset it and rendered a document
\* of two lines.
C28_Witness ==
    /\ editorFrame.ran
    /\ editorFrame.foundNeedsRender
    /\ editorFrame.renderCalls = 1
    /\ ~editorFields.needsRender
    /\ GetLineCount(editorFields.document) = 2
    /\ DOMAIN layoutWidthCache.cache = {0, 1}

\* A callback that found nothing to do after a frame had been rendered.
C28_WitnessIdle ==
    /\ editorFrame.ran
    /\ ~editorFrame.foundNeedsRender
    /\ layoutWidthCache.cache # <<>>

\* A callback whose work threw after the reset.
C28_WitnessThrew ==
    /\ editorFrame.ran
    /\ editorFrame.foundNeedsRender
    /\ editorFrame.threw

\* C30: when the work of a frame raises an error, the frame callback is
\* scheduled again all the same: the render loop is still running.
C30_FailedFrameIsRetried ==
    (editorFrame.ran /\ editorFrame.threw) => editor.state = "running"

\* C29: with the render loop started and its callback treated fairly,
\* every change of the document, the scroll offset, the cursor or the
\* selection is eventually followed by a frame that renders them as they
\* are after the change.
C29_NoRenderRequestLost ==
    (dirty /\ editor.state \in {"running", "stopped"}) ~> ~dirty


\* C31: the number of GPU calls (buffer writes, texture writes, draws,
\* submissions) of one render call is bounded by a constant that does not
\* depend on the visible glyphs: a frame that caches glyphs for the first
\* time issues no more calls than the four of a frame whose glyphs are all
\* cached (the write of the layout uniforms, the write of the Cells, one
\* draw, one submission).
C31_GpuCallsBounded ==
    frame.called => Len(frame.calls) <= 4

\* C32: a render call creates no GPU texture or buffer and allocates no
\* new instance array: what exists after initialization is what every
\* frame uses.
C32_RenderCreatesNothing ==
    frame.called => frame.created = <<>>


\* The valid position nearest to the document position of a pixel.
ClampedAt(pixel) ==
    Clamped(editorFields.document, MousePosition(pixel[1], pixel[2]).line,
            MousePosition(pixel[1], pixel[2]).column)

\* C33: after mousedown, one or more mousemove, mouseup and click (no
\* Shift) the selection made by the drag is still there, its anchor at
\* the position of the mousedown and its head at the position of the last
\* mousemove (an active selection when the two differ), the cursor is
\* where the last mousemove put it, and the dragging flag is false.
C33_ClickAfterDragKeepsSelection ==
    gesture.stage = 9 =>
        /\ selectionManager = [anchor |-> ClampedAt(gesture.first),
                               head |-> ClampedAt(gesture.second)]
        /\ ClampedAt(gesture.first) # ClampedAt(gesture.second)
              => HasSelection(selectionManager)
        /\ Position(editorFields.cursorLine, editorFields.cursorColumn)
              = ClampedAt(gesture.second)
        /\ ~inputHandler.isDragging

\* A drag from one position to another on a document of two lines has
\* been followed by its click.
C33_Witness ==
    /\ gesture.stage = 9
    /\ HasSelection(selectionManager)
    /\ selectionManager.anchor.line # selectionManager.head.line


\* The origin of the cell the renderer gives the character at (line,
\* column): the positionX and positionY of its Cell.
CellOrigin(r, line, column, scrollTop) ==
    [left |-> column * r.charWidth, top |-> (line * r.lineHeight) - scrollTop]

\* The pixels of the canvas inside the cell of (line, column).
CellPixels(r, line, column, scrollTop) ==
    {<<x, y>> : x \in (column * r.charWidth)..(((column + 1) * r.charWidth) - 1),
                y \in Max(0, (line * r.lineHeight) - scrollTop)
                        ..((((line + 1) * r.lineHeight) - scrollTop) - 1)}

\* The positions of a document.
ValidPositions(d) ==
    {Position(line, column) : line \in 0..(GetLineCount(d) - 1),
                              column \in 0..MaxDocLineLen}
        \cap {position \in [line : 0..MaxDocLines, column : 0..MaxDocLineLen] :
                 ValidPosition(d, position)}

\* The Editor after a click without Shift at a pixel: mousedown, mouseup
\* and click, in the handler state ih.
AfterPlainClick(es, ih, position) ==
    HandleClick(HandleMouseDown(es, position, FALSE),
                MouseUpFlags(MouseDownFlags(ih)), position, FALSE)

\* Is the cursor of es at the position, and would the cursor overlay be
\* put at the origin of its cell?
CursorAtCell(es, r, position) ==
    /\ Position(es.cursorLine, es.cursorColumn) = position
    /\ CursorRender(es.cursorLine, es.cursorColumn, es.scrollTop,
                    r.lineHeight, r.charWidth)
          = CellOrigin(r, position.line, position.column, es.scrollTop)

CursorSetAndSelectionCleared(es, pixel) ==
    /\ Position(es.cursorLine, es.cursorColumn)
          = Clamped(es.document, MousePosition(pixel[1], pixel[2]).line,
                    MousePosition(pixel[1], pixel[2]).column)
    /\ ~HasSelection(es.selectionManager)

C36_ScrollTopWithinBounds ==
    /\ 0 <= editorFields.scrollTop
    /\ editorFields.scrollTop
          <= Max(0, GetTotalHeight(GetLineCount(editorFields.document), LineHeight)
                       - CanvasHeight)


\* C39: after any sequence of setLineWidth, invalidateLine and clear,
\* getMaxWidth() is the maximum of the widths cached, and 0 when the cache
\* is empty; also after a setLineWidth that overwrote the width of the
\* widest line with a smaller one.
C39_MaxWidthIsMaxOfCache ==
    GetMaxWidth(widthCache)
       = (IF DOMAIN widthCache.cache = {} THEN 0
          ELSE MaxOf({widthCache.cache[k] : k \in DOMAIN widthCache.cache}))

(***************************************************************************)
(* ViewportManager: its functions applied to every input of a bounded set. *)
(***************************************************************************)
MaxScrollTop == 60
MaxTotalLines == 3

ViewportScrollTops == 0..MaxScrollTop

CanvasHeights == {1, LineHeight - 1, LineHeight, LineHeight + 1, 2 * LineHeight}

\* The buffer of getVisibleLinesWithBuffer: none, one line, the default.
Buffers == {0, 1, 10}

ViewportInputs ==
    {[NoViewportCall EXCEPT !.scrollTop = scrollTop, !.totalLines = totalLines,
                            !.canvasHeight = canvasHeight] :
        scrollTop \in ViewportScrollTops, totalLines \in 1..MaxTotalLines,
        canvasHeight \in CanvasHeights}

InitViewport ==
    /\ textureAtlas = NewAtlas(PageSize)
    /\ lastCall = NoCall
    /\ firstReturn = <<>>
    /\ font = [width |-> 1, height |-> 1]
    /\ prewarmPos = 0
    /\ renderer = NewRenderer
    /\ frame = NoFrame
    /\ previousFrame = NoFrame
    /\ monospaceOpt = NewMonospaceOptimizer
    /\ optCall = NoOptCall
    /\ widthCache = NewLineWidthCache
    /\ widthLog = <<>>
    /\ gpuEnv = GoodEnv
    /\ editor = NewEditor
    /\ selectionManager = NewSelectionManager
    /\ selectionLog = <<>>
    /\ editorFields = NewEditorFields
    /\ inputHandler = NewInputHandler
    /\ gesture = NoGesture
    /\ editorFrame = NoEditorFrame
    /\ dirty = FALSE
    /\ layoutWidthCache = NewLineWidthCache
    /\ pointer = "idle"
    /\ viewportCall \in ViewportInputs
    /\ documentCall = NoDocumentCall
    /\ highlighter = NewSyntaxHighlighter

GetVisibleLineRangeCall ==
    /\ viewportCall' =
          [viewportCall EXCEPT
              !.op = "getVisibleLineRange",
              !.buffer = 0,
              !.range = GetVisibleLineRange(viewportCall.scrollTop, viewportCall.totalLines,
                                            LineHeight, viewportCall.canvasHeight),
              !.lines = <<>>]
    /\ UNCHANGED <<textureAtlas, lastCall, firstReturn, font, prewarmPos, renderer,
                   frame, previousFrame, monospaceOpt, optCall, widthCache, widthLog,
                   gpuEnv, editor, selectionManager, selectionLog, editorFields,
                   inputHandler, gesture, editorFrame, dirty, layoutWidthCache, pointer,
                   documentCall, highlighter>>

GetVisibleLinesWithBufferCall ==
    /\ \E buffer \in Buffers :
          viewportCall' =
             [viewportCall EXCEPT
                 !.op = "getVisibleLinesWithBuffer",
                 !.buffer = buffer,
                 !.range = GetVisibleLineRange(viewportCall.scrollTop,
                                               viewportCall.totalLines, LineHeight,
                                               viewportCall.canvasHeight),
                 !.lines = GetVisibleLinesWithBuffer(viewportCall.scrollTop,
                                                     viewportCall.totalLines, buffer,
                                                     LineHeight, viewportCall.canvasHeight)]
    /\ UNCHANGED <<textureAtlas, lastCall, firstReturn, font, prewarmPos, renderer,
                   frame, previousFrame, monospaceOpt, optCall, widthCache, widthLog,
                   gpuEnv, editor, selectionManager, selectionLog, editorFields,
                   inputHandler, gesture, editorFrame, dirty, layoutWidthCache, pointer,
                   documentCall, highlighter>>

SpecViewport ==
    InitViewport /\ [][GetVisibleLineRangeCall \/ GetVisibleLinesWithBufferCall]_vars

\* Do the pixel rows of line i meet the rows scrollTop .. scrollTop +
\* canvasHeight - 1 of the viewport?
LineIntersectsViewport(i, scrollTop, canvasHeight) ==
    /\ i * LineHeight < scrollTop + canvasHeight
    /\ (i + 1) * LineHeight > scrollTop

\* The range is ordered and inside the document.
RangeIsOrdered ==
    viewportCall.op # "none" =>
        /\ 0 <= viewportCall.range.startLine
        /\ viewportCall.range.startLine <= viewportCall.range.endLine
        /\ viewportCall.range.endLine <= viewportCall.totalLines - 1

\* Every line of the document that meets the viewport is in the range.
RangeCoversViewport ==
    viewportCall.op # "none" =>
        \A i \in 0..(viewportCall.totalLines - 1) :
            LineIntersectsViewport(i, viewportCall.scrollTop, viewportCall.canvasHeight)
               => /\ viewportCall.range.startLine <= i
                  /\ i <= viewportCall.range.endLine

\* The lines with buffer are contiguous, hold the range and are lines of
\* the document.
BufferedLinesHoldRange ==
    viewportCall.op = "getVisibleLinesWithBuffer" =>
        /\ \A k \in 1..(Len(viewportCall.lines) - 1) :
               viewportCall.lines[k + 1] = viewportCall.lines[k] + 1
        /\ \A i \in viewportCall.range.startLine..viewportCall.range.endLine :
               \E k \in 1..Len(viewportCall.lines) : viewportCall.lines[k] = i
        /\ \A k \in 1..Len(viewportCall.lines) :
               viewportCall.lines[k] \in 0..(viewportCall.totalLines - 1)

\* C40: for totalLines >= 1, canvasHeight > 0 and scrollTop >= 0,
\* getVisibleLineRange returns 0 <= startLine <= endLine <= totalLines - 1,
\* every line of the document whose pixel rows meet
\* [scrollTop, scrollTop + canvasHeight) lies in startLine .. endLine, and
\* getVisibleLinesWithBuffer returns a contiguous superset of that range,
\* clipped to the document.
C40_VisibleRangeIsCorrect ==
    /\ RangeIsOrdered
    /\ RangeCoversViewport
    /\ BufferedLinesHoldRange

(***************************************************************************)
(* Document: insertText and deleteText applied to every document, position *)
(* and text of a bounded set, against the flat string of the document.     *)
(***************************************************************************)
MaxFlatLines == 2
MaxFlatLineLen == 2

\* The characters of document lines and of inserted texts.
LineChars == {"A", "B"}

LinesOfChars == UNION {[1..n -> LineChars] : n \in 0..MaxFlatLineLen}

DocumentInputs ==
    {[NoDocumentCall EXCEPT !.document = [lines |-> lines], !.result = [lines |-> lines]] :
        lines \in UNION {[1..n -> LinesOfChars] : n \in 1..MaxFlatLines}}

\* Texts of one, two and three lines.
InsertedTexts ==
    {<<>>, <<"C">>, <<"\n">>, <<"C", "\n">>, <<"\n", "D">>, <<"C", "\n", "D">>,
     <<"\n", "\n">>, <<"C", "\n", "D", "\n", "C">>}

\* The lines of a document joined by newlines: lines.join('\n').
RECURSIVE Join(_)
Join(lines) ==
    IF Len(lines) = 0 THEN <<>>
    ELSE IF Len(lines) = 1 THEN lines[1]
         ELSE lines[1] \o <<"\n">> \o Join(Tail(lines))

\* The number of characters of the flat string before (line, col).
RECURSIVE Offset(_, _, _)
Offset(lines, line, col) ==
    IF line = 0 THEN col ELSE Len(lines[1]) + 1 + Offset(Tail(lines), line - 1, col)

\* The flat string s with the text inserted behind its first n characters.
FlatInsert(s, n, text) == SubSeq(s, 1, n) \o text \o SubSeq(s, n + 1, Len(s))

\* The flat string s without its characters n + 1 .. m.
FlatDelete(s, n, m) == SubSeq(s, 1, n) \o SubSeq(s, m + 1, Len(s))

\* Is (line, col) a position of the document, and is the range one from
\* a position to a position not before it?
InRange(d, line, col) == ValidPosition(d, Position(line, col))

RangeInRange(d, range) ==
    /\ InRange(d, range.startLine, range.startColumn)
    /\ InRange(d, range.endLine, range.endColumn)
    /\ \/ range.startLine < range.endLine
       \/ range.startLine = range.endLine /\ range.startColumn <= range.endColumn

InitDocument ==
    /\ textureAtlas = NewAtlas(PageSize)
    /\ lastCall = NoCall
    /\ firstReturn = <<>>
    /\ font = [width |-> 1, height |-> 1]
    /\ prewarmPos = 0
    /\ renderer = NewRenderer
    /\ frame = NoFrame
    /\ previousFrame = NoFrame
    /\ monospaceOpt = NewMonospaceOptimizer
    /\ optCall = NoOptCall
    /\ widthCache = NewLineWidthCache
    /\ widthLog = <<>>
    /\ gpuEnv = GoodEnv
    /\ editor = NewEditor
    /\ selectionManager = NewSelectionManager
    /\ selectionLog = <<>>
    /\ editorFields = NewEditorFields
    /\ inputHandler = NewInputHandler
    /\ gesture = NoGesture
    /\ editorFrame = NoEditorFrame
    /\ dirty = FALSE
    /\ layoutWidthCache = NewLineWidthCache
    /\ pointer = "idle"
    /\ viewportCall = NoViewportCall
    /\ documentCall \in DocumentInputs
    /\ highlighter = NewSyntaxHighlighter

DocumentInsertTextCall ==
    /\ documentCall.op = "none"
    /\ \E line \in (0 - 1)..MaxFlatLines, col \in 0..MaxFlatLineLen, text \in InsertedTexts :
          /\ line \in 0..(GetLineCount(documentCall.document) - 1)
                => col <= Len(GetLine(documentCall.document, line))
          /\ documentCall' =
                [documentCall EXCEPT
                    !.op = "insertText", !.line = line, !.col = col, !.text = text,
                    !.range = Range(0, 0, 0, 0), !.threw = FALSE,
                    !.result = DocumentInsertText(documentCall.document, line, col, text)]
    /\ UNCHANGED <<textureAtlas, lastCall, firstReturn, font, prewarmPos, renderer,
                   frame, previousFrame, monospaceOpt, optCall, widthCache, widthLog,
                   gpuEnv, editor, selectionManager, selectionLog, editorFields,
                   inputHandler, gesture, editorFrame, dirty, layoutWidthCache, pointer,
                   viewportCall, highlighter>>

DocumentDeleteTextCall ==
    /\ documentCall.op = "none"
    /\ \E startLine, endLine \in 0..MaxFlatLines, startColumn, endColumn \in 0..MaxFlatLineLen :
          documentCall' =
             [documentCall EXCEPT
                 !.op = "deleteText", !.line = 0, !.col = 0, !.text = <<>>,
                 !.range = Range(startLine, startColumn, endLine, endColumn),
                 !.threw = DocumentDeleteThrows(documentCall.document,
                                                Range(startLine, startColumn,
                                                      endLine, endColumn)),
                 !.result = IF DocumentDeleteThrows(documentCall.document,
                                                    Range(startLine, startColumn,
                                                          endLine, endColumn))
                            THEN documentCall.document
                            ELSE DocumentDeleteText(documentCall.document,
                                                    Range(startLine, startColumn,
                                                          endLine, endColumn))]
    /\ UNCHANGED <<textureAtlas, lastCall, firstReturn, font, prewarmPos, renderer,
                   frame, previousFrame, monospaceOpt, optCall, widthCache, widthLog,
                   gpuEnv, editor, selectionManager, selectionLog, editorFields,
                   inputHandler, gesture, editorFrame, dirty, layoutWidthCache, pointer,
                   viewportCall, highlighter>>

SpecDocument ==
    InitDocument /\ [][DocumentInsertTextCall \/ DocumentDeleteTextCall]_vars

\* C37: the line array of the Document refines a flat string.  For every
\* document, every position (line, col) of it and every text, with or
\* without newlines, the lines joined by newlines are after insertText the
\* old joined string with the text inserted at the position; for every
\* range between two positions of the document they are after deleteText
\* the old joined string without the characters from the start of the
\* range to its end; and an insertText whose line is none of the document
\* changes nothing.
C37_LinesRefineFlatString ==
    /\ (documentCall.op = "insertText"
           /\ InRange(documentCall.document, documentCall.line, documentCall.col))
          => Join(documentCall.result.lines)
                = FlatInsert(Join(documentCall.document.lines),
                             Offset(documentCall.document.lines, documentCall.line,
                                    documentCall.col),
                             documentCall.text)
    /\ (documentCall.op = "insertText"
           /\ documentCall.line \notin 0..(GetLineCount(documentCall.document) - 1))
          => documentCall.result = documentCall.document
    /\ (documentCall.op = "deleteText"
           /\ RangeInRange(documentCall.document, documentCall.range))
          => /\ ~documentCall.threw
             /\ Join(documentCall.result.lines)
                   = FlatDelete(Join(documentCall.document.lines),
                                Offset(documentCall.document.lines,
                                       documentCall.range.startLine,
                                       documentCall.range.startColumn),
                                Offset(documentCall.document.lines,
                                       documentCall.range.endLine,
                                       documentCall.range.endColumn))

\* A text of three lines has been inserted inside the first line of a
\* document of two lines.
C37_Witness ==
    /\ documentCall.op = "insertText"
    /\ documentCall.document.lines = <<<<"A", "B">>, <<"B">>>>
    /\ documentCall.line = 0
    /\ documentCall.col = 1
    /\ documentCall.text = <<"C", "\n", "D", "\n", "C">>
    /\ documentCall.result.lines = <<<<"A", "C">>, <<"D">>, <<"C", "B">>, <<"B">>>>

\* The line break between two lines and a character on either side of it
\* have been deleted.
DeleteAcrossLinesSeen ==
    /\ documentCall.op = "deleteText"
    /\ documentCall.document.lines = <<<<"A", "B">>, <<"B", "A">>>>
    /\ documentCall.range = Range(0, 1, 1, 1)
    /\ documentCall.result.lines = <<<<"A", "A">>>>

\* C38: after any Editor.insertText and Editor.deleteText interleaved with
\* frames, the tokens the render loop gets from getCachedTokens for a
\* visible line n are the tokenization of the text line n has now: no
\* edit leaves cached tokens of a line whose text or index has changed
\* (the line split by Enter, the lines joined by Backspace, the lines
\* below them).
C38_FrameTokensAreFresh ==
    editorFrame.ran =>
        \A k \in 1..Len(highlighter.obtained) :
            highlighter.obtained[k].tokens
               = Tokenize(GetLine(editorFields.document,
                                  highlighter.obtained[k].lineNumber))

=============================================================================
